---- MODULE Spec2Model ----
(***************************************************************************)
(* Model of devflow-analyzer's ProcessAnalyzer (src/src/process_analyzer.py)*)
(* and of the result records of src/src/models.py.                         *)
(*                                                                         *)
(* Encoding of values                                                      *)
(*   - a missing cell (pandas NaN / NaT) of a numeric, timestamp or        *)
(*     project column is NULL; a missing status or language is NaN         *)
(*   - project names are 1..n, ordered as the names sort (groupby order)   *)
(*   - durations are whole seconds >= 0; a duration statistic (median,     *)
(*     quantile, max, always a float in the code) is held in tenths of a   *)
(*     second, which is exact for medians and for the 0.9 quantile         *)
(*   - a rate count/n (a double in the code) is held as the reduced        *)
(*     fraction <<num, den>>; the double the code holds is the correctly   *)
(*     rounded quotient Fl(num, den), computed by FDiv below               *)
(***************************************************************************)
EXTENDS Integers, Sequences, FiniteSets, TLC

VARIABLES
    data_path,   \* ProcessAnalyzer.data_path
    df,          \* ProcessAnalyzer.df: None or the loaded table
    ret,         \* outcome of the last call: what it returned or raised
    everLoaded,  \* history: some load_data() call has succeeded
    csv,         \* what pd.read_csv yields for the data file on disk
    _current_analysis,  \* agent._current_analysis: None or the bound result
    out,         \* what the last formatter or tool call returned
    _vector_store,  \* agent._vector_store: NoStore or the store the search tool reads
    agents,      \* the DevFlowAgent objects: None until constructed
    stores,      \* the documents of each vector store's collection
    now,         \* the clock, in ticks
    pc,          \* where each agent's analyze() / investigate() call stands
    given,       \* the analysis_result of each agent's current or last call
    latest,      \* history: the agent whose call bound its result last
    created,     \* history: the create_llm calls that returned, in order
    reporter,    \* an LLMReporter object
    tracker,     \* an ExperimentTracker object
    mlflow,      \* mlflow's active run and what was logged to each run
    timer,       \* a Timer object
    scope        \* the with-blocks the caller is inside of

analyzerVars == <<data_path, df, ret, everLoaded, csv>>
sessionVars == <<_vector_store, agents, stores, now, pc, given, latest, created, reporter>>
evaluationVars == <<tracker, mlflow, timer, scope>>

vars == <<data_path, df, ret, everLoaded, csv, _current_analysis, out,
          _vector_store, agents, stores, now, pc, given, latest, created, reporter,
          tracker, mlflow, timer, scope>>

None == [none |-> TRUE]
NULL == -1
NaN == "NaN"
NoPath == "None"

(***************************************************************************)
(* Small helpers over sequences                                            *)
(***************************************************************************)
Range(s) == {s[i] : i \in DOMAIN s}

Column(t, f) == [i \in DOMAIN t |-> t[i][f]]

NotNull(x) == x # NULL

\* fillna(0) in place of dropna()
dropna_FillZero(s) == [i \in DOMAIN s |-> IF s[i] = NULL THEN 0 ELSE s[i]]

dropna(s) == SelectSeq(s, NotNull)

\* the values of s in ascending order: the i-th is the value that has
\* fewer than i values below it and at least i values not above it
SortAsc(s) ==
    [i \in 1..Len(s) |->
        CHOOSE x \in Range(s) :
            /\ Cardinality({j \in DOMAIN s : s[j] < x}) < i
            /\ i <= Cardinality({j \in DOMAIN s : s[j] <= x})] \o <<>>

RECURSIVE SetToSortedSeq(_)
SetToSortedSeq(S) ==
    IF S = {} THEN <<>>
    ELSE LET m == CHOOSE x \in S : \A y \in S : x <= y
         IN <<m>> \o SetToSortedSeq(S \ {m})

Count(s, v) == Cardinality({i \in DOMAIN s : s[i] = v})

Take(s, n) == IF Len(s) <= n THEN s ELSE SubSeq(s, 1, n)

RECURSIVE Gcd(_, _)
Gcd(a, b) == IF b = 0 THEN a ELSE Gcd(b, a % b)

(***************************************************************************)
(* Statistics of a pandas Series, as ProcessAnalyzer uses them             *)
(***************************************************************************)
Scale == 10

\* the lower of the two middle order statistics in place of their mean
median_LowerMiddle(s) == Scale * SortAsc(s)[(Len(s) + 1) \div 2]

\* Series.median() of a non-empty series without missing values: the middle
\* order statistic, or the mean of the two middle ones (in tenths).
median(s) ==
    LET x == SortAsc(s)
        k == Len(x)
    IN IF k % 2 = 1 THEN Scale * x[(k + 1) \div 2]
       ELSE (Scale \div 2) * (x[k \div 2] + x[k \div 2 + 1])

\* the quantile at 0.1 in place of 0.9
quantile90_Tenth(s) ==
    LET x == SortAsc(s)
        k == Len(x)
        h == k - 1
        lo == h \div 10 + 1
        fr == h % 10
    IN IF fr = 0 THEN Scale * x[lo]
       ELSE Scale * x[lo] + fr * (x[lo + 1] - x[lo])

\* Series.quantile(0.9), pandas' default linear interpolation between the
\* order statistics around position 0.9 * (k - 1) (in tenths).
quantile90(s) ==
    LET x == SortAsc(s)
        k == Len(x)
        h == 9 * (k - 1)
        lo == h \div 10 + 1
        fr == h % 10
    IN IF fr = 0 THEN Scale * x[lo]
       ELSE Scale * x[lo] + fr * (x[lo + 1] - x[lo])

\* Series.max() of a non-empty series (in tenths).
max(s) == Scale * (CHOOSE m \in Range(s) : \A y \in Range(s) : y <= m)

\* Series.value_counts().to_dict(): the count of every value that occurs,
\* missing values left out.
value_counts(s) ==
    [v \in Range(s) \ {NaN} |-> Count(s, v)]

\* dict.get(key, 0) / Series.get(key, 0)
get(counts, key) == IF key \in DOMAIN counts THEN counts[key] ELSE 0

\* nunique(dropna=False)
nunique_WithMissing(s) == Cardinality(Range(s))

\* Series.nunique(): the number of distinct values, missing values left out.
nunique(s) == Cardinality(Range(s) \ {NULL})

\* the count in place of the rate
Rate_NotDivided(count, n) == <<count, 1>>

\* count / n if n > 0 else 0
Rate(count, n) ==
    IF n > 0
    THEN LET g == Gcd(count, n) IN <<count \div g, n \div g>>
    ELSE <<0, 1>>

\* r > a/b and the like, for a rate r and the decimal literal a/b
RateGT(r, a, b) == r[1] * b > a * r[2]
RateLT(r, s) == r[1] * s[2] < s[1] * r[2]
RateAdd(r, s) ==
    LET n == r[1] * s[2] + s[1] * r[2]
        d == r[2] * s[2]
        g == Gcd(n, d)
    IN <<n \div g, d \div g>>

\* the median of an empty series (NaN) in place of 0
MedianOrZero_NaN(durations) == IF Len(durations) > 0 THEN median(durations) ELSE NULL

\* median / quantile / max over the non-missing durations, 0 if there is none
MedianOrZero(durations) == IF Len(durations) > 0 THEN median(durations) ELSE 0
Quantile90OrZero(durations) == IF Len(durations) > 0 THEN quantile90(durations) ELSE 0
MaxOrZero(durations) == IF Len(durations) > 0 THEN max(durations) ELSE 0

\* Series.mean() of the non-missing values as <<sum, count>> reduced, or NULL
MeanOrNone(s) ==
    LET v == dropna(s)
        RECURSIVE Sum(_, _)
        Sum(lo, hi) == IF lo > hi THEN 0
                       ELSE IF lo = hi THEN v[lo]
                       ELSE Sum(lo, (lo + hi) \div 2) + Sum((lo + hi) \div 2 + 1, hi)
        total == Sum(1, Len(v))
    IN IF Len(v) > 0
       THEN LET g == Gcd(total, Len(v)) IN <<total \div g, Len(v) \div g>>
       ELSE <<NULL, 1>>

(***************************************************************************)
(* ProcessAnalyzer._compute_project_metrics                                *)
(***************************************************************************)
\* df.groupby(project): one group per distinct non-missing project name, in
\* sorted name order; a group holds the rows of that project in table order.
GroupKeys(t) == SetToSortedSeq(Range(Column(t, "project")) \ {NULL})

Group(t, p) == SelectSeq(t, LAMBDA r : r.project = p)

ProjectMetricsOf(t, p) ==
    LET group == Group(t, p)
        n == Len(group)
        status_counts == value_counts(Column(group, "status"))
        passed == get(status_counts, "passed")
        failed == get(status_counts, "failed")
        errored == get(status_counts, "errored")
        durations == dropna(Column(group, "duration"))
    IN [project |-> p,
        n_builds |-> n,
        success_rate |-> Rate(passed, n),
        failure_rate |-> Rate(failed, n),
        error_rate |-> Rate(errored, n),
        median_duration_seconds |-> MedianOrZero(durations),
        p90_duration_seconds |-> Quantile90OrZero(durations),
        avg_tests_run |-> MeanOrNone(Column(group, "tests_run")),
        avg_tests_failed |-> MeanOrNone(Column(group, "tests_failed"))]


_compute_project_metrics(t) ==
    LET keys == GroupKeys(t)
    IN [i \in DOMAIN keys |-> ProjectMetricsOf(t, keys[i])]

(***************************************************************************)
(* ProcessAnalyzer._identify_bottlenecks                                   *)
(***************************************************************************)
BottleneckCap == 5

\* half the overall median in place of twice
SlowThreshold_Half(overall_median) == overall_median \div 2

\* overall_median * 2
SlowThreshold(overall_median) == overall_median * 2

\* >= in place of >
IsSlow_AtLeast(project_median, overall_median) ==
    /\ project_median # NULL
    /\ project_median >= SlowThreshold(overall_median)

\* project_durations > overall_median * 2; a project without durations has
\* a NaN median, and NaN > x is False
IsSlow(project_median, overall_median) ==
    /\ project_median # NULL
    /\ project_median > SlowThreshold(overall_median)

\* Series.median() with missing values skipped: NULL (NaN) if none is left
MedianOrNaN(s) == IF Len(dropna(s)) > 0 THEN median(dropna(s)) ELSE NULL

RECURSIVE InsertByWait(_, _)
InsertByWait(acc, b) ==
    IF acc = <<>> THEN <<b>>
    ELSE IF Head(acc).avg_wait_seconds < b.avg_wait_seconds THEN <<b>> \o acc
    ELSE <<Head(acc)>> \o InsertByWait(Tail(acc), b)

\* the bottlenecks left in group order
SortByWaitDesc_Unsorted(s) == s

\* sorted(bottlenecks, key=avg_wait_seconds, reverse=True): stable
RECURSIVE SortByWaitDesc(_)
SortByWaitDesc(s) ==
    IF s = <<>> THEN <<>>
    ELSE InsertByWait(SortByWaitDesc(SubSeq(s, 1, Len(s) - 1)), s[Len(s)])

\* no [:5]
TruncateBottlenecks_NoCap(s) == s

TruncateBottlenecks(s) == Take(s, BottleneckCap)

_identify_bottlenecks(t) ==
    LET keys == GroupKeys(t)
        project_duration(p) == MedianOrNaN(Column(Group(t, p), "duration"))
        overall_median == MedianOrNaN(Column(t, "duration"))
        slow_projects == SelectSeq(keys,
            LAMBDA p : IsSlow(project_duration(p), overall_median))
        bottlenecks == [i \in DOMAIN slow_projects |->
            [transition |-> slow_projects[i],
             avg_wait_seconds |-> project_duration(slow_projects[i]),
             frequency |-> Count(Column(t, "project"), slow_projects[i])]]
    IN IF overall_median = NULL THEN <<>>
       ELSE TruncateBottlenecks(SortByWaitDesc(bottlenecks))

(***************************************************************************)
(* IEEE-754 double arithmetic on rates                                     *)
(*                                                                         *)
(* Python's count / n and a + b are correctly rounded (round to nearest,   *)
(* ties to even) to MantissaBits significant bits.  A non-negative double  *)
(* is [e, m]: m its significant bits, most significant first, the first    *)
(* of weight 2^e; zero has all bits 0.                                     *)
(***************************************************************************)
MantissaBits == 53

\* the bit string with the bits of f, as a tuple
Bits(f) == f \o <<>>

FZero == [e |-> 0, m |-> Bits([i \in 1..MantissaBits |-> 0])]
FOne == [e |-> 0, m |-> Bits([i \in 1..MantissaBits |-> IF i = 1 THEN 1 ELSE 0])]
\* the double after 1.0
FOnePlusUlp ==
    [e |-> 0, m |-> Bits([i \in 1..MantissaBits |-> IF i \in {1, MantissaBits} THEN 1 ELSE 0])]

IsFZero(x) == x.m[1] = 0

\* bits + 1; a carry out of the top bit gives <<1, 0, ..., 0>> one exponent up
FIncrement(x) ==
    LET L == Len(x.m)
        ones == {i \in 1..L : \A j \in i..L : x.m[j] = 1}
    IN IF 1 \in ones
       THEN [e |-> x.e + 1, m |-> Bits([i \in 1..L |-> IF i = 1 THEN 1 ELSE 0])]
       ELSE [e |-> x.e,
             m |-> Bits([i \in 1..L |->
                      IF i \in ones THEN 0
                      ELSE IF i + 1 \in ones \/ i = L THEN 1
                      ELSE x.m[i]])]

\* round the bit string b (first bit 1, of weight 2^e) with the tail
\* flagged by sticky to MantissaBits bits, to nearest, ties to even
FRound(e, b, sticky) ==
    LET L == Len(b)
        kept == [e |-> e, m |-> Bits([i \in 1..MantissaBits |-> IF i <= L THEN b[i] ELSE 0])]
        guard == IF L > MantissaBits THEN b[MantissaBits + 1] ELSE 0
        rest == sticky \/ \E i \in (MantissaBits + 2)..L : b[i] = 1
    IN IF guard = 1 /\ (rest \/ b[MantissaBits] = 1) THEN FIncrement(kept) ELSE kept

\* the next i >= 1 bits of the binary long division by n that has reached
\* the remainder r, followed by the remainder after them; the first half of
\* the bits leaves the remainder the second half starts from
RECURSIVE DivBits(_, _, _)
DivBits(r, n, i) ==
    IF i = 1 THEN <<IF 2 * r >= n THEN 1 ELSE 0, (2 * r) % n>>
    ELSE LET h == i \div 2
             first == DivBits(r, n, h)
         IN SubSeq(first, 1, h) \o DivBits(first[h + 1], n, i - h)

\* the smallest j with k * 2^j >= n
RECURSIVE Shift(_, _)
Shift(k, n) == IF k >= n THEN 0 ELSE 1 + Shift(2 * k, n)

RECURSIVE Pow2(_)
Pow2(j) == IF j = 0 THEN 1 ELSE 2 * Pow2(j - 1)

\* k / n for 0 <= k <= n, n > 0, as the nearest double
FDiv(k, n) ==
    IF k = 0 THEN FZero
    ELSE LET j == Shift(k, n)
             r0 == k * Pow2(j) - n
             \* the bits of the quotient after the first and one guard bit,
             \* then the remainder
             q == DivBits(r0, n, MantissaBits)
         IN FRound(-j, <<1>> \o SubSeq(q, 1, MantissaBits), q[MantissaBits + 1] # 0)

\* the sum of the bits lo..hi of a and b and the carry c into position hi,
\* the carry out of position lo first; the lower half is added first and its
\* carry goes into the upper half
RECURSIVE Carry(_, _, _, _, _)
Carry(a, b, lo, hi, c) ==
    IF lo = hi
    THEN <<(a[lo] + b[lo] + c) \div 2, (a[lo] + b[lo] + c) % 2>>
    ELSE LET mid == (lo + hi) \div 2
             low == Carry(a, b, mid + 1, hi, c)
         IN IF low[1] = 1
            THEN Carry(a, b, lo, mid, 1) \o Tail(low)
            ELSE Carry(a, b, lo, mid, 0) \o Tail(low)

\* the sum of the bit strings a and b of equal length, one bit longer
AddBits(a, b) == Carry(a, b, 1, Len(a), 0)

\* x + y as the nearest double
FAdd(x, y) ==
    IF IsFZero(x) THEN y
    ELSE IF IsFZero(y) THEN x
    ELSE LET hi == IF x.e >= y.e THEN x ELSE y
             lo == IF x.e >= y.e THEN y ELSE x
             d == hi.e - lo.e
             W == MantissaBits + d
             a == Bits([i \in 1..W |-> IF i <= MantissaBits THEN hi.m[i] ELSE 0])
             b == Bits([i \in 1..W |-> IF i <= d THEN 0 ELSE lo.m[i - d]])
             sum == AddBits(a, b)
         IN IF sum[1] = 1 THEN FRound(hi.e + 1, sum, FALSE)
            ELSE FRound(hi.e, Tail(sum), FALSE)

\* x < y for doubles
FLess(x, y) ==
    IF IsFZero(y) THEN FALSE
    ELSE IF IsFZero(x) THEN TRUE
    ELSE IF x.e # y.e THEN x.e < y.e
    ELSE \E i \in 1..MantissaBits :
            /\ x.m[i] < y.m[i]
            /\ \A j \in 1..(i - 1) : x.m[j] = y.m[j]

FLeq(x, y) == ~FLess(y, x)

\* the double a rate holds
Fl(r) == FDiv(r[1], r[2])

\* success + failure + error, as Python evaluates it
FSum3(s, f, e) == FAdd(FAdd(Fl(s), Fl(f)), Fl(e))

(***************************************************************************)
(* ProcessAnalyzer.analyze: the result built from a loaded table           *)
(***************************************************************************)
MinBuilds == 10
TopFailingCap == 5

\* >= 0.3 in place of > 0.3
IsTopFailing_AtLeast(p) == ~RateGT(<<3, 10>>, p.failure_rate[1], p.failure_rate[2]) /\ p.n_builds >= MinBuilds

\* p.failure_rate > 0.3 and p.n_builds >= 10
IsTopFailing(p) == RateGT(p.failure_rate, 3, 10) /\ p.n_builds >= MinBuilds

\* the double 0.4
AtRiskThreshold == Fl(<<4, 10>>)

\* >= 0.4 in place of > 0.4
IsAtRisk_AtLeast(p) ==
    /\ p.n_builds >= MinBuilds
    /\ FLeq(AtRiskThreshold, FAdd(Fl(p.failure_rate), Fl(p.error_rate)))

\* (p.failure_rate + p.error_rate) > 0.4 and p.n_builds >= 10
IsAtRisk(p) ==
    /\ p.n_builds >= MinBuilds
    /\ FLess(AtRiskThreshold, FAdd(Fl(p.failure_rate), Fl(p.error_rate)))

RECURSIVE InsertByFailure(_, _)
InsertByFailure(acc, p) ==
    IF acc = <<>> THEN <<p>>
    ELSE IF RateLT(Head(acc).failure_rate, p.failure_rate) THEN <<p>> \o acc
    ELSE <<Head(acc)>> \o InsertByFailure(Tail(acc), p)

\* projects with equal failure rates in reverse order
SortByFailureDesc_TiesReversed(s) ==
    LET RECURSIVE Ins(_, _)
        Ins(acc, p) ==
            IF acc = <<>> THEN <<p>>
            ELSE IF ~RateLT(p.failure_rate, Head(acc).failure_rate) THEN <<p>> \o acc
            ELSE <<Head(acc)>> \o Ins(Tail(acc), p)
        RECURSIVE Srt(_)
        Srt(q) == IF q = <<>> THEN <<>> ELSE Ins(Srt(SubSeq(q, 1, Len(q) - 1)), q[Len(q)])
    IN Srt(s)

\* sorted(top_failing, key=failure_rate, reverse=True): stable
RECURSIVE SortByFailureDesc(_)
SortByFailureDesc(s) ==
    IF s = <<>> THEN <<>>
    ELSE InsertByFailure(SortByFailureDesc(SubSeq(s, 1, Len(s) - 1)), s[Len(s)])

\* min() / max() of the parsed start timestamps, None if the column is
\* absent or holds no parsed value
DateMin(tab) ==
    LET ts == dropna(Column(tab.rows, "started_at"))
    IN IF "started_at" \in tab.columns /\ Len(ts) > 0
       THEN CHOOSE m \in Range(ts) : \A y \in Range(ts) : m <= y
       ELSE NULL

DateMax(tab) ==
    LET ts == dropna(Column(tab.rows, "started_at"))
    IN IF "started_at" \in tab.columns /\ Len(ts) > 0
       THEN CHOOSE m \in Range(ts) : \A y \in Range(ts) : y <= m
       ELSE NULL

BuildAnalysisResult(tab) ==
    LET t == tab.rows
        n_builds == Len(t)
        status_counts == value_counts(Column(t, "status"))
        passed == get(status_counts, "passed")
        failed == get(status_counts, "failed")
        errored == get(status_counts, "errored")
        durations == dropna(Column(t, "duration"))
        project_metrics == _compute_project_metrics(t)
    IN [n_builds |-> n_builds,
        n_projects |-> nunique(Column(t, "project")),
        date_range_start |-> DateMin(tab),
        date_range_end |-> DateMax(tab),
        overall_success_rate |-> Rate(passed, n_builds),
        overall_failure_rate |-> Rate(failed, n_builds),
        overall_error_rate |-> Rate(errored, n_builds),
        median_duration_seconds |-> MedianOrZero(durations),
        p90_duration_seconds |-> Quantile90OrZero(durations),
        max_duration_seconds |-> MaxOrZero(durations),
        status_counts |-> status_counts,
        language_counts |-> IF "language" \in tab.columns
                            THEN value_counts(Column(t, "language"))
                            ELSE <<>>,
        bottlenecks |-> _identify_bottlenecks(t),
        projects_at_risk |->
            LET risky == SelectSeq(project_metrics, IsAtRisk)
            IN [i \in DOMAIN risky |-> risky[i].project],
        top_failing_projects |->
            Take(SortByFailureDesc(SelectSeq(project_metrics, IsTopFailing)),
                 TopFailingCap),
        project_metrics |-> project_metrics]

(***************************************************************************)
(* Input tables                                                            *)
(*                                                                         *)
(* A table is what pd.read_csv returns: the optional columns it has and    *)
(* its rows.  The project, status and duration columns are always there    *)
(* (the input contract of the analyzer).  A cell of a numeric or timestamp *)
(* column is a value, empty (NULL) or text that does not parse (BAD).  A   *)
(* cell of an optional column that is absent is NULL.                      *)
(***************************************************************************)
BAD == -2

OptionalColumns == {"started_at", "language", "tests_run", "tests_failed"}

Row(p, s, d) ==
    [project |-> p, status |-> s, duration |-> d,
     started_at |-> 1, language |-> "java", tests_run |-> 4, tests_failed |-> 0]

Table(rows) == [columns |-> OptionalColumns, rows |-> rows]

SeqsUpTo(S, n) == UNION {[1..k -> S] : k \in 0..n}

\* n rows of project p with duration d: f failed, then e errored, then
\* o canceled, the rest passed
Block(p, n, f, e, o, d) ==
    [i \in 1..n |->
        Row(p,
            IF i <= f THEN "failed"
            ELSE IF i <= f + e THEN "errored"
            ELSE IF i <= f + e + o THEN "canceled"
            ELSE "passed",
            d)]

RECURSIVE Flatten(_)
Flatten(ss) == IF ss = <<>> THEN <<>> ELSE Head(ss) \o Flatten(Tail(ss))

\* every table of up to MaxStatusRows rows over the projects and statuses
MaxStatusRows == 2
Statuses == {"passed", "failed", "errored", "canceled", NaN}
SmallStatusTables ==
    {Table(t) : t \in SeqsUpTo({Row(p, s, 1) : p \in {NULL, 1, 2}, s \in Statuses},
                               MaxStatusRows)}

\* every table of up to MaxDurationRows rows over two projects and the
\* durations, missing ones included
MaxDurationRows == 3
SmallDurations == {NULL, 1, 2, 5}
SmallDurationTables ==
    {Table(t) : t \in SeqsUpTo({Row(p, "passed", d) : p \in {1, 2}, d \in SmallDurations},
                               MaxDurationRows)}

\* one project of up to MaxRateRows rows with every split of the rows into
\* passed, failed, errored and canceled, and the larger splits of LargeSplits
MaxRateRows == 6
LargeSplits == {<<28, 18, 1, 0>>, <<28, 18, 0, 1>>, <<30, 23, 1, 0>>,
                <<10, 3, 2, 0>>, <<10, 3, 1, 0>>, <<100, 0, 0, 0>>}
Splits ==
    {<<n, f, e, o>> : n \in 0..MaxRateRows, f \in 0..MaxRateRows,
                      e \in 0..MaxRateRows, o \in 0..MaxRateRows}
RateTables ==
    {Table(Block(1, x[1], x[2], x[3], x[4], 1)) :
        x \in {y \in Splits \cup LargeSplits : y[2] + y[3] + y[4] <= y[1]}}

\* a fast project that fixes the overall median at 1 second, and up to
\* MaxSlow one-build projects with the durations of SlowDurations
MaxSlow == 6
SlowDurations == {2, 3, 5}
BottleneckTables ==
    {Table(Block(1, MaxSlow + 1, 0, 0, 0, 1)
           \o [i \in DOMAIN ds |-> Row(i + 1, "passed", ds[i])]) :
        ds \in SeqsUpTo(SlowDurations, MaxSlow)}

\* up to MaxTopBlocks projects, each with one of the build / failure /
\* error counts of TopShapes
MaxTopBlocks == 3
TopShapes == {<<10, 3, 0>>, <<10, 4, 0>>, <<9, 9, 0>>, <<20, 6, 1>>,
              <<20, 7, 0>>, <<10, 0, 5>>}
TopFailingTables ==
    {Table(Flatten([i \in DOMAIN sh |->
                Block(i, sh[i][1], sh[i][2], sh[i][3], 0, 1)])) :
        sh \in SeqsUpTo(TopShapes, MaxTopBlocks)}

\* tables whose optional columns are absent or hold missing / unparseable
\* cells
MaxCellRows == 2
CellRow(d, ts, l, tr) ==
    [project |-> 1, status |-> "passed", duration |-> d, started_at |-> ts,
     language |-> l, tests_run |-> tr, tests_failed |-> 0]
CellRows ==
    {CellRow(d, ts, "java", 4) : d \in {BAD, 3}, ts \in {NULL, BAD, 1, 2}}
    \cup {CellRow(3, 1, NaN, tr) : tr \in {NULL, BAD}}
    \cup {[CellRow(3, 1, "java", 4) EXCEPT !.tests_failed = tf] : tf \in {NULL, BAD}}
Blank(r) == [r EXCEPT !.started_at = NULL, !.language = NaN,
                      !.tests_run = NULL, !.tests_failed = NULL]
CellTables ==
    {Table(t) : t \in SeqsUpTo(CellRows, MaxCellRows)}
    \cup {[columns |-> {}, rows |-> [i \in DOMAIN t |-> Blank(t[i])]] :
            t \in SeqsUpTo({Row(1, s, d) : s \in {"passed", "failed"}, d \in {NULL, 3}},
                           MaxCellRows)}

\* up to MaxTieBlocks projects of 10 builds with 4 or 5 failures each, the
\* projects met in the table in name order or in reverse name order
MaxTieBlocks == 6
TieShapes == {<<10, 4, 0>>, <<10, 5, 0>>}
TieTables ==
    {Table(Flatten([i \in DOMAIN sh |->
                Block(IF reversed THEN Len(sh) + 1 - i ELSE i,
                      sh[i][1], sh[i][2], sh[i][3], 0, 1)])) :
        sh \in SeqsUpTo(TieShapes, MaxTieBlocks), reversed \in BOOLEAN}

\* the table of tests/test_analyzer.py: proj-a (1) and proj-b (2), five
\* builds each, started at ten successive instants
SampleRow(i, p, s, d, l, tr, tf) ==
    [project |-> p, status |-> s, duration |-> d, started_at |-> i,
     language |-> l, tests_run |-> tr, tests_failed |-> tf]
SampleTable ==
    Table(<<SampleRow(1, 1, "passed", 100, "java", 50, 0),
            SampleRow(2, 1, "passed", 120, "java", 50, 0),
            SampleRow(3, 1, "failed", 150, "java", 50, 5),
            SampleRow(4, 1, "passed", 90, "java", 50, 0),
            SampleRow(5, 1, "errored", 200, "java", 50, 0),
            SampleRow(6, 2, "passed", 300, "python", 100, 0),
            SampleRow(7, 2, "failed", 350, "python", 100, 10),
            SampleRow(8, 2, "failed", 400, "python", 100, 15),
            SampleRow(9, 2, "passed", 280, "python", 100, 0),
            SampleRow(10, 2, "passed", 320, "python", 100, 0)>>)

Files == SmallStatusTables \cup SmallDurationTables \cup RateTables
         \cup BottleneckTables \cup TopFailingTables \cup CellTables
         \cup TieTables \cup {SampleTable}

(***************************************************************************)
(* The objects beside the analyzer, as they are before any of them is      *)
(* used: the module globals of agent.py at import, no DevFlowAgent and no  *)
(* LLMReporter constructed yet, empty vector stores, an ExperimentTracker  *)
(* and a Timer just constructed.  A None in a numeric field is NULL.       *)
(***************************************************************************)
Agents == {"A", "B"}
Stores == {"S"}
NoStore == "None"
Nobody == "nobody"
Idle == [op |-> "", at |-> "idle"]

SessionInit ==
    /\ _vector_store = NoStore
    /\ agents = [a \in Agents |-> None]
    /\ stores = [s \in Stores |-> {}]
    /\ now = 0
    /\ pc = [a \in Agents |-> Idle]
    /\ given = [a \in Agents |-> None]
    /\ latest = Nobody
    /\ created = <<>>
    /\ reporter = None

EvaluationInit ==
    /\ tracker = [_run |-> NULL]
    /\ mlflow = [active |-> NULL, runs |-> 0, logged |-> {}]
    /\ timer = [_start |-> NULL, _end |-> NULL]
    /\ scope = [run |-> "outside", timer |-> "outside"]

(***************************************************************************)
(* ProcessAnalyzer: construction, load_data, analyze                       *)
(***************************************************************************)
DataFile == "builds.csv"
MissingFile == "missing.csv"
Paths == {DataFile, MissingFile}

Raise(op, exc, msg) == [op |-> op, kind |-> "raise", exc |-> exc, msg |-> msg, value |-> None]
Return(op, value) == [op |-> op, kind |-> "return", exc |-> "", msg |-> "", value |-> value]

\* an unparseable cell read as 0
Coerce_Zero(x) == IF x = BAD THEN 0 ELSE x

\* pd.to_datetime / pd.to_numeric with errors="coerce"
Coerce(x) == IF x = BAD THEN NULL ELSE x

_preprocess(tab) ==
    [tab EXCEPT !.rows = [i \in DOMAIN tab.rows |->
        [tab.rows[i] EXCEPT !.started_at = Coerce(@), !.duration = Coerce(@),
                            !.tests_run = Coerce(@), !.tests_failed = Coerce(@)]]]

\* a default file in place of no path
ResolvePath_Default(path) == IF path # NoPath THEN path ELSE DataFile

\* path = path or self.data_path
ResolvePath(path) == IF path # NoPath THEN path ELSE data_path

\* if self.df is None: raise ValueError("No data loaded. ...")
NoDataLoaded(d) == d = None

Init ==
    /\ SessionInit
    /\ EvaluationInit
    /\ data_path \in {NoPath, DataFile}
    /\ df = None
    /\ ret = Return("__init__", None)
    /\ everLoaded = FALSE
    /\ csv \in Files
    /\ _current_analysis = None
    /\ out = Return("", None)

LoadDataNoPath(path) ==
    /\ ResolvePath(path) = NoPath
    /\ ret' = Raise("load_data", "ValueError", "No data path provided")
    /\ UNCHANGED <<data_path, df, everLoaded, csv, _current_analysis, out, sessionVars, evaluationVars>>

LoadDataMissingFile(path) ==
    /\ ResolvePath(path) = MissingFile
    /\ ret' = Raise("load_data", "FileNotFoundError", "")
    /\ UNCHANGED <<data_path, df, everLoaded, csv, _current_analysis, out, sessionVars, evaluationVars>>

\* the table read but not stored in self.df
LoadDataOk_NotStored(path) ==
    /\ ResolvePath(path) = DataFile
    /\ ret' = Return("load_data", None)
    /\ everLoaded' = TRUE
    /\ UNCHANGED <<data_path, df, csv, _current_analysis, out, sessionVars, evaluationVars>>

LoadDataOk(path) ==
    /\ ResolvePath(path) = DataFile
    /\ df' = _preprocess(csv)
    /\ ret' = Return("load_data", None)
    /\ everLoaded' = TRUE
    /\ UNCHANGED <<data_path, csv, _current_analysis, out, sessionVars, evaluationVars>>

load_data(path) ==
    \/ LoadDataNoPath(path)
    \/ LoadDataMissingFile(path)
    \/ LoadDataOk(path)

\* the rows of passed builds dropped from the stored table on the way
analyze_KeepsFailed ==
    /\ ret' = IF NoDataLoaded(df)
              THEN Raise("analyze", "ValueError", "No data loaded")
              ELSE Return("analyze", BuildAnalysisResult(df))
    /\ df' = IF NoDataLoaded(df) THEN df
             ELSE [df EXCEPT !.rows = SelectSeq(@, LAMBDA r : r.status # "passed")]
    /\ UNCHANGED <<data_path, everLoaded, csv, _current_analysis, out, sessionVars, evaluationVars>>

analyze ==
    /\ ret' = IF NoDataLoaded(df)
              THEN Raise("analyze", "ValueError", "No data loaded")
              ELSE Return("analyze", BuildAnalysisResult(df))
    /\ UNCHANGED <<data_path, df, everLoaded, csv, _current_analysis, out, sessionVars, evaluationVars>>

Next ==
    \/ \E path \in {NoPath} \cup Paths : load_data(path)
    \/ analyze

Spec == Init /\ [][Next]_vars

\* the tables the data file holds one after the other
ReloadTables ==
    {Table(Block(1, 2, 1, 0, 0, 3)),
     Table(Block(2, 1, 0, 0, 0, 1)),
     Table(Block(1, 1, 0, 0, 0, 1) \o Block(3, 2, 0, 1, 0, 5)),
     Table(<<>>),
     SampleTable}

ReloadInit ==
    /\ SessionInit
    /\ EvaluationInit
    /\ data_path \in {NoPath, DataFile}
    /\ df = None
    /\ ret = Return("__init__", None)
    /\ everLoaded = FALSE
    /\ csv \in ReloadTables
    /\ _current_analysis = None
    /\ out = Return("", None)

\* the data file is written anew by whoever produces it
FileRewritten(tab) ==
    /\ tab # csv
    /\ csv' = tab
    /\ UNCHANGED <<data_path, df, ret, everLoaded, _current_analysis, out, sessionVars,
                   evaluationVars>>

ReloadNext ==
    \/ \E path \in {NoPath} \cup Paths : load_data(path)
    \/ analyze
    \/ \E tab \in ReloadTables : FileRewritten(tab)

ReloadSpec == ReloadInit /\ [][ReloadNext]_vars

(***************************************************************************)
(* models.py: BuildAnalysisResult.to_dict and to_llm_context               *)
(*                                                                         *)
(* A start timestamp counts half seconds from an epoch.  An ISO-8601       *)
(* string is the tuple of its numeric fields: days, hours, minutes,        *)
(* seconds and, only if they are not zero, microseconds.  A dataclass and  *)
(* its dict are both records with the same keys.  A text is the sequence   *)
(* of its lines; a line is its format string and, for every replacement    *)
(* field, the format specification and the value it renders (the decimal   *)
(* digits a specification produces are not modelled).                      *)
(***************************************************************************)
MicrosPerTick == 500000
TicksPerSecond == 2

\* datetime.isoformat(timespec="seconds"): the fraction always left out
isoformat_Seconds(d) ==
    LET secs == d \div TicksPerSecond
    IN <<secs \div 86400, (secs % 86400) \div 3600, (secs % 3600) \div 60, secs % 60>>

\* datetime.isoformat(): YYYY-MM-DDTHH:MM:SS, followed by .ffffff if the
\* microsecond is not 0
isoformat(d) ==
    LET secs == d \div TicksPerSecond
        microsecond == (d % TicksPerSecond) * MicrosPerTick
        whole == <<secs \div 86400, (secs % 86400) \div 3600, (secs % 3600) \div 60, secs % 60>>
    IN IF microsecond = 0 THEN whole ELSE whole \o <<microsecond>>

\* the null of a dict entry that otherwise holds an ISO string
NoDate == <<>>

\* x.isoformat() if x else None
IsoOrNone(x) == IF x # NULL THEN isoformat(x) ELSE NoDate

\* dataclasses.asdict of a Bottleneck or a ProjectMetrics
asdict(x) == x

to_dict(r) ==
    [n_builds |-> r.n_builds,
     n_projects |-> r.n_projects,
     date_range_start |-> IsoOrNone(r.date_range_start),
     date_range_end |-> IsoOrNone(r.date_range_end),
     overall_success_rate |-> r.overall_success_rate,
     overall_failure_rate |-> r.overall_failure_rate,
     overall_error_rate |-> r.overall_error_rate,
     median_duration_seconds |-> r.median_duration_seconds,
     p90_duration_seconds |-> r.p90_duration_seconds,
     max_duration_seconds |-> r.max_duration_seconds,
     status_counts |-> r.status_counts,
     language_counts |-> r.language_counts,
     bottlenecks |-> Bits([i \in DOMAIN r.bottlenecks |-> asdict(r.bottlenecks[i])]),
     projects_at_risk |-> r.projects_at_risk,
     top_failing_projects |->
        Bits([i \in DOMAIN r.top_failing_projects |-> asdict(r.top_failing_projects[i])]),
     project_metrics |->
        Bits([i \in DOMAIN r.project_metrics |-> asdict(r.project_metrics[i])])]

\* a replacement field {value:spec}
Fmt(spec, value) == [spec |-> spec, value |-> value]

Line(text, fields) == [text |-> text, fields |-> fields]

EmptyLine == Line("", <<>>)

\* a section that is rendered although its list is empty
Section_Always(list, header, lines) == <<Line(header, <<>>)>> \o lines \o <<EmptyLine>>

\* if list: the header, one line per element, an empty line
Section(list, header, lines) ==
    IF Len(list) > 0 THEN <<Line(header, <<>>)>> \o lines \o <<EmptyLine>> ELSE <<>>

to_llm_context(r) ==
    <<Line("# CI/CD Build Analysis Results", <<>>),
      EmptyLine,
      Line("## Summary", <<>>),
      Line("- Total builds analyzed: {}", <<Fmt(",", r.n_builds)>>),
      Line("- Projects: {}", <<Fmt("", r.n_projects)>>),
      Line("- Date range: {} to {}",
           <<Fmt("", r.date_range_start), Fmt("", r.date_range_end)>>),
      EmptyLine,
      Line("## Build Status", <<>>),
      Line("- Success rate: {}", <<Fmt(".1%", r.overall_success_rate)>>),
      Line("- Failure rate: {}", <<Fmt(".1%", r.overall_failure_rate)>>),
      Line("- Error rate: {}", <<Fmt(".1%", r.overall_error_rate)>>),
      EmptyLine,
      Line("## Duration", <<>>),
      Line("- Median: {}s ({} min)",
           <<Fmt(".0f", r.median_duration_seconds),
             Fmt(".1f", <<r.median_duration_seconds, 60>>)>>),
      Line("- P90: {}s ({} min)",
           <<Fmt(".0f", r.p90_duration_seconds),
             Fmt(".1f", <<r.p90_duration_seconds, 60>>)>>),
      Line("- Max: {}s ({} min)",
           <<Fmt(".0f", r.max_duration_seconds),
             Fmt(".1f", <<r.max_duration_seconds, 60>>)>>),
      EmptyLine>>
    \o Section(r.bottlenecks, "## Bottlenecks",
         Bits([i \in DOMAIN r.bottlenecks |->
            Line("- {}: avg wait {}s ({} occurrences)",
                 <<Fmt("", r.bottlenecks[i].transition),
                   Fmt(".0f", r.bottlenecks[i].avg_wait_seconds),
                   Fmt("", r.bottlenecks[i].frequency)>>)]))
    \o Section(r.projects_at_risk, "## Projects at Risk",
         Bits([i \in DOMAIN r.projects_at_risk |->
            Line("- {}", <<Fmt("", r.projects_at_risk[i])>>)]))
    \o Section(r.top_failing_projects, "## Top Failing Projects",
         Bits([i \in DOMAIN r.top_failing_projects |->
            Line("- {}: {} failure rate ({} builds)",
                 <<Fmt("", r.top_failing_projects[i].project),
                   Fmt(".1%", r.top_failing_projects[i].failure_rate),
                   Fmt("", r.top_failing_projects[i].n_builds)>>)]))

(***************************************************************************)
(* agent.py: the bound result and the reporting tools                      *)
(*                                                                         *)
(* A tool returns a text.  Project names are shorter than the 30           *)
(* characters compare_projects cuts them to.  The status lines of          *)
(* analyze_failures are in descending count order, statuses with the same  *)
(* count in the order of StatusOrder.                                      *)
(***************************************************************************)
NoAnalysisText == <<Line("Error: No analysis data available.", <<>>)>>

\* 1 in place of 0 for a zero median
Ratio_OneWhenZero(avg_wait_seconds, median_duration_seconds) ==
    IF median_duration_seconds > 0
    THEN LET g == Gcd(avg_wait_seconds, median_duration_seconds)
         IN <<avg_wait_seconds \div g, median_duration_seconds \div g>>
    ELSE <<1, 1>>

\* b.avg_wait_seconds / result.median_duration_seconds
\*     if result.median_duration_seconds > 0 else 0
Ratio(avg_wait_seconds, median_duration_seconds) ==
    IF median_duration_seconds > 0
    THEN LET g == Gcd(avg_wait_seconds, median_duration_seconds)
         IN <<avg_wait_seconds \div g, median_duration_seconds \div g>>
    ELSE <<0, 1>>

BottleneckReport(result) ==
    IF Len(result.bottlenecks) = 0
    THEN <<Line("## Bottleneck Analysis\n", <<>>),
           Line("No significant bottlenecks detected.", <<>>),
           Line("Median build duration: {}s", <<Fmt(".0f", result.median_duration_seconds)>>),
           Line("P90 build duration: {}s", <<Fmt(".0f", result.p90_duration_seconds)>>)>>
    ELSE <<Line("## Bottleneck Analysis\n", <<>>),
           Line("Overall median duration: {}s ({} min)",
                <<Fmt(".0f", result.median_duration_seconds),
                  Fmt(".1f", <<result.median_duration_seconds, 60>>)>>),
           Line("Overall P90 duration: {}s ({} min)",
                <<Fmt(".0f", result.p90_duration_seconds),
                  Fmt(".1f", <<result.p90_duration_seconds, 60>>)>>),
           Line("\n### Slow Projects (>{}s median):\n",
                <<Fmt(".0f", result.median_duration_seconds * 2)>>)>>
         \o Bits([i \in DOMAIN result.bottlenecks |->
              LET b == result.bottlenecks[i]
              IN Line("- **{}**: {}s avg ({}x baseline), {} builds",
                      <<Fmt("", b.transition),
                        Fmt(".0f", b.avg_wait_seconds),
                        Fmt(".1f", Ratio(b.avg_wait_seconds, result.median_duration_seconds)),
                        Fmt("", b.frequency)>>)])

StatusOrder == <<"passed", "failed", "errored", "canceled">>

\* sorted(result.status_counts.items(), key=lambda x: -x[1])
SortByCountDesc(counts) ==
    LET Before(j, k) == counts[StatusOrder[j]] > counts[StatusOrder[k]]
                        \/ (counts[StatusOrder[j]] = counts[StatusOrder[k]] /\ j < k)
        present == {j \in DOMAIN StatusOrder : StatusOrder[j] \in DOMAIN counts}
    IN [i \in 1..Cardinality(present) |->
          StatusOrder[CHOOSE k \in present :
                         Cardinality({j \in present : Before(j, k)}) = i - 1]]

FailureReport(result) ==
    <<Line("## Failure Pattern Analysis\n", <<>>),
      Line("Overall success rate: {}", <<Fmt(".1%", result.overall_success_rate)>>),
      Line("Overall failure rate: {}", <<Fmt(".1%", result.overall_failure_rate)>>),
      Line("Overall error rate: {}", <<Fmt(".1%", result.overall_error_rate)>>)>>
    \o (IF DOMAIN result.status_counts # {}
        THEN <<Line("\n### Status Distribution:", <<>>)>>
             \o LET statuses == SortByCountDesc(result.status_counts)
                IN Bits([i \in DOMAIN statuses |->
                     Line("- {}: {} ({}%)",
                          <<Fmt("", statuses[i]),
                            Fmt("", result.status_counts[statuses[i]]),
                            Fmt(".1f", <<result.status_counts[statuses[i]] * 100,
                                         result.n_builds>>)>>)])
        ELSE <<>>)
    \o (IF Len(result.top_failing_projects) > 0
        THEN <<Line("\n### Top Failing Projects:", <<>>)>>
             \o Bits([i \in DOMAIN result.top_failing_projects |->
                  LET p == result.top_failing_projects[i]
                  IN Line("- **{}**: {} failure rate, {} error rate ({} builds)",
                          <<Fmt("", p.project), Fmt(".1%", p.failure_rate),
                            Fmt(".1%", p.error_rate), Fmt("", p.n_builds)>>)])
        ELSE <<>>)
    \o (IF Len(result.projects_at_risk) > 0
        THEN <<Line("\n### Projects at Risk (>40% failure+error):", <<>>)>>
             \o Bits([i \in DOMAIN result.projects_at_risk |->
                  Line("- {}", <<Fmt("", result.projects_at_risk[i])>>)])
        ELSE <<>>)

CompareCap == 15

\* >= 15 in place of > 15
NeedsTrailer_AtLeast(sorted_projects) == Len(sorted_projects) >= CompareCap

\* len(sorted_projects) > 15
NeedsTrailer(sorted_projects) == Len(sorted_projects) > CompareCap

ComparisonReport(result) ==
    IF Len(result.project_metrics) = 0
    THEN <<Line("## Project Comparison\n", <<>>),
           Line("No project-level metrics available.", <<>>)>>
    ELSE LET sorted_projects == SortByFailureDesc(result.project_metrics)
             shown == Take(sorted_projects, CompareCap)
         IN <<Line("## Project Comparison\n", <<>>),
              Line("Total projects: {}", <<Fmt("", result.n_projects)>>),
              Line("Total builds: {}", <<Fmt("", result.n_builds)>>),
              EmptyLine,
              Line("| Project | Builds | Success | Failure | Median Duration |", <<>>),
              Line("|---------|--------|---------|---------|-----------------|", <<>>)>>
            \o Bits([i \in DOMAIN shown |->
                 Line("| {} | {} | {} | {} | {}s |",
                      <<Fmt("", shown[i].project), Fmt("", shown[i].n_builds),
                        Fmt(".0%", shown[i].success_rate),
                        Fmt(".0%", shown[i].failure_rate),
                        Fmt(".0f", shown[i].median_duration_seconds)>>)])
            \o (IF NeedsTrailer(sorted_projects)
                THEN <<Line("| ... and {} more projects | | | | |",
                            <<Fmt("", Len(sorted_projects) - CompareCap)>>)>>
                ELSE <<>>)

\* the result a caller holds: what analyze() has just returned
Returned == IF ret.op = "analyze" /\ ret.kind = "return" THEN {ret.value} ELSE {}

\* the analysis dropped in place of bound
set_analysis_context_Ignored ==
    /\ \E analysis \in Returned : _current_analysis' = _current_analysis
    /\ UNCHANGED <<data_path, df, ret, everLoaded, csv, out, sessionVars, evaluationVars>>

\* set_analysis_context(analysis), the caller passing the result it holds
set_analysis_context ==
    /\ \E analysis \in Returned : _current_analysis' = analysis
    /\ UNCHANGED <<data_path, df, ret, everLoaded, csv, out, sessionVars, evaluationVars>>

\* every call answered as if no result were bound
NoAnalysis_Always(current) == TRUE

\* if _current_analysis is None
NoAnalysis(current) == current = None

analyze_bottlenecks ==
    /\ out' = Return("analyze_bottlenecks",
                     IF NoAnalysis(_current_analysis) THEN NoAnalysisText
                     ELSE BottleneckReport(_current_analysis))
    /\ UNCHANGED <<data_path, df, ret, everLoaded, csv, _current_analysis, sessionVars, evaluationVars>>

analyze_failures ==
    /\ out' = Return("analyze_failures",
                     IF NoAnalysis(_current_analysis) THEN NoAnalysisText
                     ELSE FailureReport(_current_analysis))
    /\ UNCHANGED <<data_path, df, ret, everLoaded, csv, _current_analysis, sessionVars, evaluationVars>>

compare_projects ==
    /\ out' = Return("compare_projects",
                     IF NoAnalysis(_current_analysis) THEN NoAnalysisText
                     ELSE ComparisonReport(_current_analysis))
    /\ UNCHANGED <<data_path, df, ret, everLoaded, csv, _current_analysis, sessionVars, evaluationVars>>

get_summary_stats ==
    /\ out' = Return("get_summary_stats",
                     IF NoAnalysis(_current_analysis) THEN NoAnalysisText
                     ELSE to_llm_context(_current_analysis))
    /\ UNCHANGED <<data_path, df, ret, everLoaded, csv, _current_analysis, sessionVars, evaluationVars>>

\* result.to_dict() on the result analyze() returned
ToDict ==
    /\ ret.op = "analyze" /\ ret.kind = "return"
    /\ out' = Return("to_dict", to_dict(ret.value))
    /\ UNCHANGED <<data_path, df, ret, everLoaded, csv, _current_analysis, sessionVars, evaluationVars>>

\* result.to_llm_context() on the result analyze() returned
ToLlmContext ==
    /\ ret.op = "analyze" /\ ret.kind = "return"
    /\ out' = Return("to_llm_context", to_llm_context(ret.value))
    /\ UNCHANGED <<data_path, df, ret, everLoaded, csv, _current_analysis, sessionVars, evaluationVars>>

\* up to MaxReportBlocks projects, each with one of the build / failure /
\* error counts and the duration of ReportShapes
MaxReportBlocks == 2
ReportShapes == {<<2, 0, 0, 1>>, <<1, 1, 0, 5>>, <<10, 4, 0, 1>>,
                 <<10, 0, 5, 1>>, <<10, 5, 0, 0>>}
ReportTables ==
    {Table(Flatten([i \in DOMAIN sh |->
                Block(i, sh[i][1], sh[i][2], sh[i][3], 0, sh[i][4])])) :
        sh \in SeqsUpTo(ReportShapes, MaxReportBlocks)}

\* two slow projects next to a project whose builds take no time
SlowPairTable ==
    Table(Block(1, 10, 5, 0, 0, 0) \o Block(2, 1, 1, 0, 0, 5) \o Block(3, 1, 0, 0, 0, 7))

\* up to MaxDateRows builds with the start timestamps of DateStamps, and a
\* table without the timestamp column
MaxDateRows == 2
DateStamps == {NULL, 1, 2, 14647}
DateTables ==
    {Table(t) : t \in SeqsUpTo({CellRow(3, ts, "java", 4) : ts \in DateStamps},
                               MaxDateRows)}
    \cup {[columns |-> {}, rows |-> <<Blank(Row(1, "passed", 3))>>]}

\* up to MaxProjects projects of one build, every second or every third of
\* them failed
MaxProjects == 17
ManyProjectTables ==
    {Table([i \in 1..k |-> Row(i, IF i % m = 0 THEN "failed" ELSE "passed", 1)]) :
        k \in 0..MaxProjects, m \in {2, 3}}

AgentFiles == ReportTables \cup {SlowPairTable} \cup DateTables \cup ManyProjectTables

AgentInit ==
    /\ SessionInit
    /\ EvaluationInit
    /\ data_path \in {NoPath, DataFile}
    /\ df = None
    /\ ret = Return("__init__", None)
    /\ everLoaded = FALSE
    /\ csv \in AgentFiles
    /\ _current_analysis = None
    /\ out = Return("", None)

AgentNext ==
    \/ \E path \in {NoPath} \cup Paths : load_data(path)
    \/ analyze
    \/ set_analysis_context
    \/ analyze_bottlenecks
    \/ analyze_failures
    \/ compare_projects
    \/ get_summary_stats
    \/ ToDict
    \/ ToLlmContext

AgentSpec == AgentInit /\ [][AgentNext]_vars

(***************************************************************************)
(* vector_store.py: DevFlowVectorStore                                     *)
(*                                                                         *)
(* A collection is the set of its documents, no two with the same id.  A   *)
(* document id, the parts joined by "-", is held as the sequence of its    *)
(* parts.  The clock counts ticks of half a second; the two strftime       *)
(* formats cut it to whole seconds and to days.  Which documents a         *)
(* similarity search ranks first depends on the embeddings: any ranking    *)
(* of the matching documents is a possible answer.                         *)
(***************************************************************************)
SecondsPerDay == 86400
DefaultProject == "multi-project"

\* a timestamp that keeps the fraction of the second
Timestamp_Ticks(t) == t

\* datetime.now().strftime("%Y%m%dT%H%M%S")
Timestamp(t) == t \div TicksPerSecond

\* datetime.now().strftime("%Y-%m-%d")
AnalysisDate(t) == (t \div TicksPerSecond) \div SecondsPerDay

_make_doc_id(doc_type, project, timestamp, section) ==
    <<doc_type>> \o (IF section # "" THEN <<section>> ELSE <<>>) \o <<project, timestamp>>

\* the document store_analysis() writes at time t
AnalysisDocument(analysis, project_name, model_used, temperature, t) ==
    [id |-> _make_doc_id("analysis", project_name, Timestamp(t), ""),
     text |-> to_llm_context(analysis),
     metadata |-> [doc_type |-> "analysis",
                   project |-> project_name,
                   analysis_date |-> AnalysisDate(t),
                   n_builds |-> analysis.n_builds,
                   n_projects |-> analysis.n_projects,
                   success_rate |-> analysis.overall_success_rate,
                   failure_rate |-> analysis.overall_failure_rate,
                   median_duration_s |-> analysis.median_duration_seconds,
                   model_used |-> model_used,
                   temperature |-> temperature]]

\* the document store_report_section() writes at time t
ReportDocument(section_name, content, project_name, model_used, t) ==
    [id |-> _make_doc_id("report", project_name, Timestamp(t), section_name),
     text |-> content,
     metadata |-> [doc_type |-> "report_section",
                   section |-> section_name,
                   project |-> project_name,
                   analysis_date |-> AnalysisDate(t),
                   model_used |-> model_used]]

\* every document kept, whatever its id
add_texts_Append(docs, doc) == docs \cup {doc}

\* Chroma.add_texts(texts=[text], metadatas=[metadata], ids=[doc_id]): an
\* upsert, the document that has the id is replaced
add_texts(docs, doc) == {d \in docs : d.id # doc.id} \cup {doc}

\* DevFlowVectorStore.count
collection_count(docs) == Cardinality(docs)

\* search_similar(query, k) under the filter {"doc_type": "analysis"}: the
\* possible result lists
search_similar(docs, k) ==
    LET matching == {d \in docs : d.metadata.doc_type = "analysis"}
        n == IF Cardinality(matching) < k THEN Cardinality(matching) ELSE k
    IN {r \in [1..n -> matching] : \A i, j \in 1..n : r[i] = r[j] => i = j}

(***************************************************************************)
(* agent.py: the history tool and DevFlowAgent                             *)
(*                                                                         *)
(* Agents run in sessions of one process.  A call of analyze() or          *)
(* investigate() is two steps: up to the start of self.agent.invoke(), and *)
(* from the end of the invocation to the return; while the invocation      *)
(* runs the graph calls tools, and calls of other agents may begin or end. *)
(* An LLM instance is the index of the create_llm call that returned it.   *)
(* Temperatures are held in tenths.                                        *)
(***************************************************************************)
NoStoreText == <<Line("No historical data available. This is the first analysis.", <<>>)>>
EmptyStoreText == <<Line("No historical analyses stored yet.", <<>>)>>
NoResultsText == <<Line("No relevant historical analyses found.", <<>>)>>
SearchK == 3

HistorySection(i, r) ==
    <<Line("### Historical Analysis {}", <<Fmt("", i)>>),
      Line("**Project:** {} | **Date:** {} | **Success Rate:** {}",
           <<Fmt("", r.metadata.project), Fmt("", r.metadata.analysis_date),
             Fmt("", r.metadata.success_rate)>>),
      EmptyLine>>
    \o r.text \o <<EmptyLine>>

RECURSIVE Join(_, _)
Join(sections, sep) ==
    IF sections = <<>> THEN <<>>
    ELSE IF Len(sections) = 1 THEN sections[1]
    ELSE sections[1] \o sep \o Join(Tail(sections), sep)

\* the empty-store test before the no-store test: an unset store counts as empty
HistoryReport_EmptyFirst(vector_store, docs, results) ==
    IF collection_count(docs) = 0 THEN EmptyStoreText
    ELSE IF vector_store = NoStore THEN NoStoreText
    ELSE IF results = <<>> THEN NoResultsText
    ELSE Join([i \in DOMAIN results |-> HistorySection(i, results[i])],
              <<Line("---", <<>>)>>)

\* search_historical_analyses(query), results being what search_similar
\* answers when it is called
HistoryReport(vector_store, docs, results) ==
    IF vector_store = NoStore THEN NoStoreText
    ELSE IF collection_count(docs) = 0 THEN EmptyStoreText
    ELSE IF results = <<>> THEN NoResultsText
    ELSE Join([i \in DOMAIN results |-> HistorySection(i, results[i])],
              <<Line("---", <<>>)>>)

\* the documents of the store the tool reads
ToolDocs == IF _vector_store = NoStore THEN {} ELSE stores[_vector_store]

search_historical_analyses ==
    /\ \E results \in search_similar(ToolDocs, SearchK) :
            out' = Return("search_historical_analyses",
                          HistoryReport(_vector_store, ToolDocs, results))
    /\ UNCHANGED <<analyzerVars, _current_analysis, sessionVars, evaluationVars>>

ModelKeys == {"gpt-4o-mini", "claude-sonnet"}
AgentTemperature == 3

\* the store of the first agent kept for the tool
set_vector_store_Once(current, store) == IF current = NoStore THEN store ELSE current

\* set_vector_store(store)
set_vector_store(current, store) == store

\* DevFlowAgent(model_key, temperature, vector_store)
DevFlowAgent(a, model_key, temperature, vector_store) ==
    /\ agents[a] = None
    /\ agents' = [agents EXCEPT ![a] = [model_key |-> model_key,
                                        temperature |-> temperature,
                                        vector_store |-> vector_store,
                                        _agent |-> NULL]]
    /\ _vector_store' = set_vector_store(_vector_store, vector_store)
    /\ UNCHANGED <<analyzerVars, _current_analysis, out, stores, now, pc, given,
                   latest, created, reporter, evaluationVars>>

\* a new instance made on every access
NotYetCreated_Never(cached) == TRUE

\* if self._agent is None / if self._llm is None
NotYetCreated(cached) == cached = NULL

\* create_llm(model_key, temperature) returning an instance for owner
create_llm(owner, model_key, temperature) ==
    Append(created, [by |-> owner, model_key |-> model_key, temperature |-> temperature])

\* the result bound only while nothing is bound
Bind_KeepFirst(current, analysis) == IF current = None THEN analysis ELSE current

\* set_analysis_context(analysis_result) as analyze() and investigate() call it
Bind(current, analysis) == analysis

\* analyze() / investigate() up to the start of self.agent.invoke(): the
\* result is bound, then self.agent is read, which makes the graph if
\* there is none; create_llm raises when the provider is not available
Begin(a, op, analysis_result, available) ==
    /\ agents[a] # None
    /\ pc[a] = Idle
    /\ _current_analysis' = Bind(_current_analysis, analysis_result)
    /\ given' = [given EXCEPT ![a] = analysis_result]
    /\ latest' = a
    /\ IF ~NotYetCreated(agents[a]._agent)
       THEN /\ available
            /\ pc' = [pc EXCEPT ![a] = [op |-> op, at |-> "invoke"]]
            /\ UNCHANGED <<agents, created, out>>
       ELSE IF available
       THEN /\ created' = create_llm(a, agents[a].model_key, agents[a].temperature)
            /\ agents' = [agents EXCEPT ![a]._agent = Len(created')]
            /\ pc' = [pc EXCEPT ![a] = [op |-> op, at |-> "invoke"]]
            /\ out' = out
       ELSE /\ out' = Raise(op, "RuntimeError", "Provider not available")
            /\ UNCHANGED <<agents, created, pc>>
    /\ UNCHANGED <<analyzerVars, _vector_store, stores, now, reporter, evaluationVars>>

AnalyzeBegin(a, analysis_result) ==
    \E available \in BOOLEAN : Begin(a, "analyze", analysis_result, available)

InvestigateBegin(a, analysis_result) ==
    \E available \in BOOLEAN : Begin(a, "investigate", analysis_result, available)

Invoking(a) == pc[a].at = "invoke"

\* a tool called by the graph some agent is running
ToolCall ==
    /\ \E a \in Agents : Invoking(a)
    /\ \/ get_summary_stats
       \/ analyze_bottlenecks
       \/ analyze_failures
       \/ compare_projects
       \/ search_historical_analyses

FinalMessage == <<Line("final message", <<>>)>>
NoOutputText == <<Line("No output generated", <<>>)>>

\* result["messages"][-1].content, or the text for a result without messages
Content(messages) == IF messages THEN FinalMessage ELSE NoOutputText

\* the result stored by investigate() too
StoresResult_Always(op) == TRUE

\* only analyze() has the auto-store block
StoresResult(op) == op = "analyze"

\* the invocation returns: analyze() stores the result it was given if the
\* agent has a vector store, and both return the final message
InvokeReturns(a) ==
    /\ Invoking(a)
    /\ stores' = IF StoresResult(pc[a].op) /\ agents[a].vector_store # NoStore
                 THEN [stores EXCEPT ![agents[a].vector_store] =
                          add_texts(@, AnalysisDocument(given[a], DefaultProject,
                                                        agents[a].model_key,
                                                        agents[a].temperature, now))]
                 ELSE stores
    /\ \E messages \in BOOLEAN : out' = Return(pc[a].op, Content(messages))
    /\ pc' = [pc EXCEPT ![a] = Idle]
    /\ UNCHANGED <<analyzerVars, _current_analysis, _vector_store, agents, now, given,
                   latest, created, reporter, evaluationVars>>

\* the result stored although the invocation raised
InvokeRaises_Stores(a) ==
    /\ Invoking(a)
    /\ out' = Raise(pc[a].op, "Exception", "invoke")
    /\ pc' = [pc EXCEPT ![a] = Idle]
    /\ stores' = IF agents[a].vector_store # NoStore
                 THEN [stores EXCEPT ![agents[a].vector_store] =
                          add_texts(@, AnalysisDocument(given[a], DefaultProject,
                                                        agents[a].model_key,
                                                        agents[a].temperature, now))]
                 ELSE stores
    /\ UNCHANGED <<analyzerVars, _current_analysis, _vector_store, agents, now,
                   given, latest, created, reporter, evaluationVars>>

\* the invocation raises, and so does the call
InvokeRaises(a) ==
    /\ Invoking(a)
    /\ out' = Raise(pc[a].op, "Exception", "invoke")
    /\ pc' = [pc EXCEPT ![a] = Idle]
    /\ UNCHANGED <<analyzerVars, _current_analysis, _vector_store, agents, stores, now,
                   given, latest, created, reporter, evaluationVars>>

\* store.store_report_section(section_name, content)
store_report_section(s) ==
    /\ stores' = [stores EXCEPT ![s] =
                     add_texts(@, ReportDocument("build_health", FinalMessage,
                                                 DefaultProject, "unknown", now))]
    /\ UNCHANGED <<analyzerVars, _current_analysis, out, _vector_store, agents, now, pc,
                   given, latest, created, reporter, evaluationVars>>

MaxTicks == 2
Tick ==
    /\ now < MaxTicks
    /\ now' = now + 1
    /\ UNCHANGED <<analyzerVars, _current_analysis, out, _vector_store, agents, stores, pc,
                   given, latest, created, reporter, evaluationVars>>

\* the results the sessions hold: what analyze() returns for these tables
SessionTables == {Table(Block(1, 1, 0, 0, 0, 1)), Table(Block(1, 2, 1, 0, 0, 3))}
Analyses == {BuildAnalysisResult(_preprocess(t)) : t \in SessionTables}

\* a process with nothing loaded in the analyzer and nothing bound
ProcessInit ==
    /\ SessionInit
    /\ EvaluationInit
    /\ data_path = NoPath
    /\ df = None
    /\ ret = Return("__init__", None)
    /\ everLoaded = FALSE
    /\ csv = Table(<<>>)
    /\ _current_analysis = None
    /\ out = Return("", None)

\* sessions of agents without a vector store
SessionNext ==
    \/ \E a \in Agents, model_key \in ModelKeys :
            DevFlowAgent(a, model_key, AgentTemperature, NoStore)
    \/ \E a \in Agents, analysis_result \in Analyses : AnalyzeBegin(a, analysis_result)
    \/ \E a \in Agents, analysis_result \in Analyses : InvestigateBegin(a, analysis_result)
    \/ ToolCall
    \/ \E a \in Agents : InvokeReturns(a)
    \/ \E a \in Agents : InvokeRaises(a)

SessionSpec == ProcessInit /\ [][SessionNext]_vars

\* model_key: str = "gpt-4o-mini"
DefaultModelKey == "gpt-4o-mini"

\* the history tool called by the graph some agent is running
HistoryCall ==
    /\ \E a \in Agents : Invoking(a)
    /\ search_historical_analyses

Ops == {"analyze", "investigate"}

\* sessions of agents made with or without a vector store while the clock
\* runs; the provider is available and the graphs call the history tool
StoreNext ==
    \/ \E a \in Agents, vector_store \in Stores \cup {NoStore} :
            DevFlowAgent(a, DefaultModelKey, AgentTemperature, vector_store)
    \/ \E a \in Agents, op \in Ops, analysis_result \in Analyses :
            Begin(a, op, analysis_result, TRUE)
    \/ HistoryCall
    \/ \E a \in Agents : InvokeReturns(a)
    \/ \E a \in Agents : InvokeRaises(a)
    \/ Tick

StoreSpec == ProcessInit /\ [][StoreNext]_vars

\* set_vector_store(store) called on its own
SetVectorStore(store) ==
    /\ _vector_store' = set_vector_store(_vector_store, store)
    /\ UNCHANGED <<analyzerVars, _current_analysis, out, agents, stores, now, pc, given,
                   latest, created, reporter, evaluationVars>>

\* store.store_analysis(analysis) with the default project, model and
\* temperature
store_analysis(s, analysis) ==
    /\ stores' = [stores EXCEPT ![s] =
                     add_texts(@, AnalysisDocument(analysis, DefaultProject, "unknown",
                                                   AgentTemperature, now))]
    /\ UNCHANGED <<analyzerVars, _current_analysis, out, _vector_store, agents, now, pc,
                   given, latest, created, reporter, evaluationVars>>

\* the documents of n analyses stored before the process started, one a
\* second
MaxStored == 2
Stored(n, analysis) ==
    {AnalysisDocument(analysis, DefaultProject, "unknown", AgentTemperature,
                      0 - i * TicksPerSecond) : i \in 1..n}

\* a process that finds a store holding up to MaxStored analyses
HistoryInit ==
    /\ \E n \in 0..MaxStored, analysis \in Analyses :
            stores = [s \in Stores |-> Stored(n, analysis)]
    /\ _vector_store = NoStore
    /\ agents = [a \in Agents |-> None]
    /\ now = 0
    /\ pc = [a \in Agents |-> Idle]
    /\ given = [a \in Agents |-> None]
    /\ latest = Nobody
    /\ created = <<>>
    /\ reporter = None
    /\ EvaluationInit
    /\ data_path = NoPath
    /\ df = None
    /\ ret = Return("__init__", None)
    /\ everLoaded = FALSE
    /\ csv = Table(<<>>)
    /\ _current_analysis = None
    /\ out = Return("", None)

\* the store set and unset, analyses and report sections stored and the
\* history tool called while the clock runs
HistoryNext ==
    \/ \E store \in Stores \cup {NoStore} : SetVectorStore(store)
    \/ \E s \in Stores, analysis \in Analyses : store_analysis(s, analysis)
    \/ \E s \in Stores : store_report_section(s)
    \/ search_historical_analyses
    \/ Tick

HistorySpec == HistoryInit /\ [][HistoryNext]_vars

(***************************************************************************)
(* llm_reporter.py: LLMReporter                                            *)
(*                                                                         *)
(* reporter is the one LLMReporter of the process, None before it is       *)
(* constructed; its _llm is the place in created of the instance           *)
(* create_llm returned, NULL for None.                                     *)
(***************************************************************************)
ReporterTemperature == 7
Temperatures == {AgentTemperature, ReporterTemperature}
PromptNames == {"build_health_summary", "bottleneck_analysis", "failure_patterns",
                 "recommendations"}
SectionText == <<Line("section", <<>>)>>

\* LLMReporter(model_key, temperature)
LLMReporter(model_key, temperature) ==
    /\ reporter = None
    /\ reporter' = [model_key |-> model_key, temperature |-> temperature, _llm |-> NULL]
    /\ UNCHANGED <<analyzerVars, _current_analysis, out, _vector_store, agents, stores,
                   now, pc, given, latest, created, evaluationVars>>

\* _generate_section(prompt_name, ...) for the calls sections names, in
\* order: the prompt is loaded, self.llm is read and the chain invoked;
\* the outcome is the instances made, the instance cached and what the
\* call gives back
RECURSIVE GenerateSections(_, _, _, _, _)
GenerateSections(op, sections, available, made, llm) ==
    IF sections = <<>>
    THEN [created |-> made, _llm |-> llm, out |-> Return(op, SectionText)]
    ELSE IF Head(sections) \notin PromptNames
    THEN [created |-> made, _llm |-> llm,
          out |-> Raise(op, "FileNotFoundError", "Prompt template not found")]
    ELSE IF NotYetCreated(llm) /\ ~available
    THEN [created |-> made, _llm |-> llm,
          out |-> Raise(op, "RuntimeError", "Provider not available")]
    ELSE IF NotYetCreated(llm)
    THEN GenerateSections(op, Tail(sections), available,
                          Append(made, [by |-> "reporter",
                                        model_key |-> reporter.model_key,
                                        temperature |-> reporter.temperature]),
                          Len(made) + 1)
    ELSE GenerateSections(op, Tail(sections), available, made, llm)

\* reporter.generate_section(section_name, analysis_result)
generate_section(section_name, available) ==
    /\ reporter # None
    /\ LET done == GenerateSections("generate_section", <<section_name>>, available,
                                    created, reporter._llm)
       IN  /\ created' = done.created
           /\ reporter' = [reporter EXCEPT !._llm = done._llm]
           /\ out' = done.out
    /\ UNCHANGED <<analyzerVars, _current_analysis, _vector_store, agents, stores,
                   now, pc, given, latest, evaluationVars>>

\* reporter.generate_report(analysis_result): four sections
generate_report(available) ==
    /\ reporter # None
    /\ LET done == GenerateSections("generate_report",
                                    <<"build_health_summary", "bottleneck_analysis",
                                      "failure_patterns", "recommendations">>,
                                    available, created, reporter._llm)
       IN  /\ created' = done.created
           /\ reporter' = [reporter EXCEPT !._llm = done._llm]
           /\ out' = done.out
    /\ UNCHANGED <<analyzerVars, _current_analysis, _vector_store, agents, stores,
                   now, pc, given, latest, evaluationVars>>

\* one agent and a reporter of any model key and temperature, used any
\* number of times, the provider being available or not
LazyNext ==
    \/ \E model_key \in ModelKeys, temperature \in Temperatures :
            DevFlowAgent("A", model_key, temperature, NoStore)
    \/ \E analysis_result \in Analyses : AnalyzeBegin("A", analysis_result)
    \/ \E analysis_result \in Analyses : InvestigateBegin("A", analysis_result)
    \/ InvokeReturns("A")
    \/ InvokeRaises("A")
    \/ \E model_key \in ModelKeys, temperature \in Temperatures :
            LLMReporter(model_key, temperature)
    \/ \E section_name \in PromptNames \cup {"unknown"}, available \in BOOLEAN :
            generate_section(section_name, available)
    \/ \E available \in BOOLEAN : generate_report(available)

LazySpec == ProcessInit /\ [][LazyNext]_vars

(***************************************************************************)
(* evaluation.py: ExperimentTracker                                        *)
(*                                                                         *)
(* mlflow is the tracking library's state: the active run (NULL if none),  *)
(* the number of runs started and the entries logged, each a pair of the   *)
(* run and the kind of entry.  mlflow.start_run() raises while a run is    *)
(* active, its with-block ends the run however the block is left, and the  *)
(* fluent log functions start a run themselves when none is active.        *)
(* scope.run is where the caller is: inside or outside the with-block of   *)
(* tracker.start_run().                                                    *)
(***************************************************************************)
MaxRuns == 2
NoActiveRun == "No active run. Use start_run() context manager."

\* with tracker.start_run(run_name): up to the yield
start_run ==
    /\ scope.run = "outside"
    /\ IF mlflow.active # NULL
       THEN /\ out' = Raise("start_run", "Exception", "Run is already active")
            /\ UNCHANGED <<tracker, mlflow, scope>>
       ELSE /\ mlflow.runs < MaxRuns
            /\ mlflow' = [mlflow EXCEPT !.active = mlflow.runs + 1,
                                        !.runs = mlflow.runs + 1]
            /\ tracker' = [tracker EXCEPT !._run = mlflow.runs + 1]
            /\ scope' = [scope EXCEPT !.run = "inside"]
            /\ out' = out
    /\ UNCHANGED <<analyzerVars, _current_analysis, sessionVars, timer>>

\* the body of the with-block ends: the generator resumes after the yield
\* and clears _run, then mlflow's with-block ends the run
start_run_Exit ==
    /\ scope.run = "inside"
    /\ tracker' = [tracker EXCEPT !._run = NULL]
    /\ mlflow' = [mlflow EXCEPT !.active = NULL]
    /\ scope' = [scope EXCEPT !.run = "outside"]
    /\ UNCHANGED <<analyzerVars, _current_analysis, out, sessionVars, timer>>

\* the body of the with-block raises: the exception is thrown into the
\* generator at the yield, the line after it is not run, mlflow's
\* with-block ends the run and the exception goes on to the caller
start_run_Raise ==
    /\ scope.run = "inside"
    /\ mlflow' = [mlflow EXCEPT !.active = NULL]
    /\ scope' = [scope EXCEPT !.run = "outside"]
    /\ out' = Raise("start_run", "ValueError", "body")
    /\ UNCHANGED <<analyzerVars, _current_analysis, tracker, sessionVars, timer>>

\* mlflow.log_params / log_metrics / log_artifact: the entry goes to the
\* active run, started here if there is none
mlflow_log(kind) ==
    LET run == IF mlflow.active = NULL THEN mlflow.runs + 1 ELSE mlflow.active
    IN  [active |-> run,
         runs |-> IF mlflow.active = NULL THEN mlflow.runs + 1 ELSE mlflow.runs,
         logged |-> mlflow.logged \cup {<<run, kind>>}]

\* tracker.log_params(params)
log_params ==
    /\ IF tracker._run = NULL
       THEN /\ out' = Raise("log_params", "RuntimeError", NoActiveRun)
            /\ mlflow' = mlflow
       ELSE /\ mlflow.active = NULL => mlflow.runs < MaxRuns
            /\ mlflow' = mlflow_log("params")
            /\ out' = Return("log_params", None)
    /\ UNCHANGED <<analyzerVars, _current_analysis, sessionVars, tracker, timer, scope>>

\* tracker.log_metrics(metrics)
log_metrics ==
    /\ IF tracker._run = NULL
       THEN /\ out' = Raise("log_metrics", "RuntimeError", NoActiveRun)
            /\ mlflow' = mlflow
       ELSE /\ mlflow.active = NULL => mlflow.runs < MaxRuns
            /\ mlflow' = mlflow_log("metrics")
            /\ out' = Return("log_metrics", None)
    /\ UNCHANGED <<analyzerVars, _current_analysis, sessionVars, tracker, timer, scope>>

\* tracker.log_artifact(content, filename)
log_artifact ==
    /\ IF tracker._run = NULL
       THEN /\ out' = Raise("log_artifact", "RuntimeError", NoActiveRun)
            /\ mlflow' = mlflow
       ELSE /\ mlflow.active = NULL => mlflow.runs < MaxRuns
            /\ mlflow' = mlflow_log("artifact")
            /\ out' = Return("log_artifact", None)
    /\ UNCHANGED <<analyzerVars, _current_analysis, sessionVars, tracker, timer, scope>>

TrackerNext ==
    \/ start_run
    \/ start_run_Exit
    \/ start_run_Raise
    \/ log_params
    \/ log_metrics
    \/ log_artifact

TrackerSpec == ProcessInit /\ [][TrackerNext]_vars

(***************************************************************************)
(* evaluation.py: Timer                                                    *)
(*                                                                         *)
(* time.perf_counter() is the clock now, in ticks; scope.timer is where    *)
(* the caller is: inside or outside a with-block of the timer.  A reading  *)
(* of elapsed_ms is in whole milliseconds.                                 *)
(***************************************************************************)
MillisPerSecond == 1000

\* with timer: the block is entered
Timer__enter__ ==
    /\ scope.timer = "outside"
    /\ timer' = [timer EXCEPT !._start = now]
    /\ scope' = [scope EXCEPT !.timer = "inside"]
    /\ UNCHANGED <<analyzerVars, _current_analysis, out, sessionVars, tracker, mlflow>>

\* the block is left, by its end or by an exception
Timer__exit__ ==
    /\ scope.timer = "inside"
    /\ timer' = [timer EXCEPT !._end = now]
    /\ scope' = [scope EXCEPT !.timer = "outside"]
    /\ UNCHANGED <<analyzerVars, _current_analysis, out, sessionVars, tracker, mlflow>>

\* timer.elapsed_ms
elapsed_ms(t) ==
    IF t._start = NULL \/ t._end = NULL THEN 0
    ELSE ((t._end - t._start) * MillisPerSecond) \div TicksPerSecond

\* timer.elapsed_ms read by the caller
ReadElapsed ==
    /\ out' = Return("elapsed_ms", elapsed_ms(timer))
    /\ UNCHANGED <<analyzerVars, _current_analysis, sessionVars, evaluationVars>>

\* the clock goes on while the timer is used
MaxPerfTicks == 3
PerfTick ==
    /\ now < MaxPerfTicks
    /\ now' = now + 1
    /\ UNCHANGED <<analyzerVars, _current_analysis, out, _vector_store, agents, stores, pc,
                   given, latest, created, reporter, evaluationVars>>

TimerNext ==
    \/ Timer__enter__
    \/ Timer__exit__
    \/ ReadElapsed
    \/ PerfTick

TimerSpec == ProcessInit /\ [][TimerNext]_vars

(***************************************************************************)
(* Properties                                                              *)
(***************************************************************************)
IsResult == ret.op = "analyze" /\ ret.kind = "return"
Result == ret.value

RowsOf(p) == {i \in DOMAIN df.rows : df.rows[i].project = p}
ProjectNames == {df.rows[i].project : i \in DOMAIN df.rows} \ {NULL}
KnownStatuses == {"passed", "failed", "errored"}
HasOtherStatus(I) == \E i \in I : df.rows[i].status \notin KnownStatuses
WithDuration(I) == {i \in I : df.rows[i].duration # NULL}

\* C1: analyze() raises ValueError "No data loaded" and yields no result
\* as long as no load_data() call has succeeded, and returns a result once
\* one has
C1_AnalyzeNeedsLoad ==
    ret.op = "analyze" =>
        IF everLoaded
        THEN ret.kind = "return" /\ ret.value # None
        ELSE /\ ret.kind = "raise"
             /\ ret.exc = "ValueError"
             /\ ret.msg = "No data loaded"
             /\ ret.value = None

C1_Witness ==
    /\ ret.op = "analyze"
    /\ ret.kind = "raise"
    /\ ~everLoaded
    /\ data_path = DataFile

\* C2: load_data() without a path argument on an analyzer constructed
\* without a data_path raises ValueError "No data path provided" and leaves
\* the stored table as it was; with nothing loaded before, the table stays
\* unset, so that analyze() still fails
C2_NoPathRaises ==
    /\ [][(data_path = NoPath /\ load_data(NoPath)) =>
            /\ ret' = Raise("load_data", "ValueError", "No data path provided")
            /\ df' = df
            /\ everLoaded' = everLoaded]_vars
    /\ []((ret.msg = "No data path provided" /\ ~everLoaded) => NoDataLoaded(df))

C2_Witness ==
    /\ ret = Raise("load_data", "ValueError", "No data path provided")
    /\ data_path = NoPath
    /\ df # None
    /\ Len(df.rows) > 0

InUnit(r) == 0 <= r[1] /\ r[1] <= r[2] /\ r[2] > 0

\* C3 as stated: every rate is in [0,1]; the three overall rates sum to at
\* most 1; the three rates of a project sum to at most 1, and to less than
\* 1 exactly when the project has rows with another or a missing status
C3_Original ==
    IsResult =>
        /\ InUnit(Result.overall_success_rate)
        /\ InUnit(Result.overall_failure_rate)
        /\ InUnit(Result.overall_error_rate)
        /\ FLeq(FSum3(Result.overall_success_rate, Result.overall_failure_rate,
                      Result.overall_error_rate), FOne)
        /\ \A i \in DOMAIN Result.project_metrics :
             LET p == Result.project_metrics[i]
                 sum == FSum3(p.success_rate, p.failure_rate, p.error_rate)
             IN /\ InUnit(p.success_rate)
                /\ InUnit(p.failure_rate)
                /\ InUnit(p.error_rate)
                /\ FLeq(sum, FOne)
                /\ FLess(sum, FOne) <=> HasOtherStatus(RowsOf(p.project))

\* C3 amended: every rate is in [0,1]; the sum of the three, in double
\* arithmetic, is at most the double after 1, and is less than 1 whenever
\* the table (the project) has rows with another or a missing status
C3_RatesBounded ==
    IsResult =>
        /\ InUnit(Result.overall_success_rate)
        /\ InUnit(Result.overall_failure_rate)
        /\ InUnit(Result.overall_error_rate)
        /\ LET sum == FSum3(Result.overall_success_rate, Result.overall_failure_rate,
                           Result.overall_error_rate)
           IN /\ FLeq(sum, FOnePlusUlp)
              /\ HasOtherStatus(DOMAIN df.rows) => FLess(sum, FOne)
        /\ \A i \in DOMAIN Result.project_metrics :
             LET p == Result.project_metrics[i]
                 sum == FSum3(p.success_rate, p.failure_rate, p.error_rate)
             IN /\ InUnit(p.success_rate)
                /\ InUnit(p.failure_rate)
                /\ InUnit(p.error_rate)
                /\ FLeq(sum, FOnePlusUlp)
                /\ HasOtherStatus(RowsOf(p.project)) => FLess(sum, FOne)

\* a project of 28 builds, none with another status, whose rates sum to
\* more than 1
C3_Witness ==
    /\ IsResult
    /\ Result.n_builds = 28
    /\ ~HasOtherStatus(DOMAIN df.rows)
    /\ FLess(FOne, FSum3(Result.overall_success_rate, Result.overall_failure_rate,
                         Result.overall_error_rate))

\* C4: analyze() on a table without rows returns a result with zero counts,
\* zero rates, zero duration statistics, no date range and empty lists
C4_EmptyTable ==
    (IsResult /\ Len(df.rows) = 0) =>
        /\ Result.n_builds = 0
        /\ Result.n_projects = 0
        /\ Result.overall_success_rate = <<0, 1>>
        /\ Result.overall_failure_rate = <<0, 1>>
        /\ Result.overall_error_rate = <<0, 1>>
        /\ Result.median_duration_seconds = 0
        /\ Result.p90_duration_seconds = 0
        /\ Result.max_duration_seconds = 0
        /\ Result.date_range_start = NULL
        /\ Result.date_range_end = NULL
        /\ DOMAIN Result.status_counts = {}
        /\ Len(Result.project_metrics) = 0
        /\ Len(Result.bottlenecks) = 0
        /\ Len(Result.projects_at_risk) = 0
        /\ Len(Result.top_failing_projects) = 0

C4_Witness == IsResult /\ Len(df.rows) = 0 /\ df.columns = OptionalColumns

\* C5: n_builds is the row count, n_projects the number of distinct project
\* names, and project_metrics holds exactly one entry per project name,
\* with that project's row count
C5_Counts ==
    IsResult =>
        LET pm == Result.project_metrics
        IN /\ Result.n_builds = Len(df.rows)
           /\ Result.n_projects = Cardinality(ProjectNames)
           /\ Len(pm) = Result.n_projects
           /\ \A p \in ProjectNames :
                Cardinality({i \in DOMAIN pm : pm[i].project = p}) = 1
           /\ \A i \in DOMAIN pm :
                /\ pm[i].project \in ProjectNames
                /\ pm[i].n_builds = Cardinality(RowsOf(pm[i].project))

\* two rows, one of them without a project name
C5_Witness ==
    /\ IsResult
    /\ Result.n_builds = 2
    /\ Result.n_projects = 1
    /\ Len(Result.project_metrics) = 1
    /\ \E i \in DOMAIN df.rows : df.rows[i].project = NULL

\* the j-th smallest duration among the rows I, by rank
OrderStat(I, j) ==
    LET d(i) == df.rows[i].duration
    IN CHOOSE x \in {d(i) : i \in I} :
         /\ Cardinality({i \in I : d(i) < x}) < j
         /\ j <= Cardinality({i \in I : d(i) <= x})

RefMedian(I) ==
    LET k == Cardinality(I)
    IN IF k = 0 THEN 0
       ELSE IF k % 2 = 1 THEN Scale * OrderStat(I, (k + 1) \div 2)
       ELSE (Scale * (OrderStat(I, k \div 2) + OrderStat(I, k \div 2 + 1))) \div 2

RefP90(I) ==
    LET k == Cardinality(I)
        lo == (9 * (k - 1)) \div 10 + 1
        fr == (9 * (k - 1)) % 10
    IN IF k = 0 THEN 0
       ELSE IF lo = k THEN Scale * OrderStat(I, k)
       ELSE (Scale - fr) * OrderStat(I, lo) + fr * OrderStat(I, lo + 1)

RefMax(I) ==
    IF I = {} THEN 0
    ELSE Scale * (CHOOSE x \in {df.rows[i].duration : i \in I} :
                      \A i \in I : df.rows[i].duration <= x)

\* C6: the overall median, p90 and max are those of the rows with a
\* duration, rows without one changing nothing, and are 0 if no row has a
\* duration; likewise the median and p90 of each project
C6_DurationsOverNonNull ==
    IsResult =>
        /\ Result.median_duration_seconds = RefMedian(WithDuration(DOMAIN df.rows))
        /\ Result.p90_duration_seconds = RefP90(WithDuration(DOMAIN df.rows))
        /\ Result.max_duration_seconds = RefMax(WithDuration(DOMAIN df.rows))
        /\ \A i \in DOMAIN Result.project_metrics :
             LET p == Result.project_metrics[i]
             IN /\ p.median_duration_seconds = RefMedian(WithDuration(RowsOf(p.project)))
                /\ p.p90_duration_seconds = RefP90(WithDuration(RowsOf(p.project)))

C6_Witness ==
    /\ IsResult
    /\ \E i \in DOMAIN df.rows : df.rows[i].duration = NULL
    /\ Cardinality(WithDuration(DOMAIN df.rows)) = 2
    /\ Result.median_duration_seconds # Result.max_duration_seconds
    /\ \E i \in DOMAIN Result.project_metrics :
         /\ WithDuration(RowsOf(Result.project_metrics[i].project)) = {}
         /\ Result.project_metrics[i].median_duration_seconds = 0

Flagged ==
    {i \in DOMAIN Result.project_metrics :
        Result.project_metrics[i].median_duration_seconds
            > 2 * Result.median_duration_seconds}

Listed(p) == \E j \in DOMAIN Result.bottlenecks : Result.bottlenecks[j].transition = p

\* C7: no project whose median duration is at most twice the overall median
\* is among the bottlenecks; the list is empty when all builds have the
\* same duration and when no build has a duration
C7_NotSlowNotListed ==
    IsResult =>
        /\ \A i \in DOMAIN Result.project_metrics :
             LET p == Result.project_metrics[i]
             IN p.median_duration_seconds <= 2 * Result.median_duration_seconds
                    => ~Listed(p.project)
        /\ Cardinality({df.rows[i].duration : i \in DOMAIN df.rows} \ {NULL}) <= 1
             => Len(Result.bottlenecks) = 0

\* a project at exactly twice the overall median next to a listed one
C7_Witness ==
    /\ IsResult
    /\ Result.median_duration_seconds > 0
    /\ Len(Result.bottlenecks) > 0
    /\ \E i \in DOMAIN Result.project_metrics :
         /\ Result.project_metrics[i].median_duration_seconds
              = 2 * Result.median_duration_seconds
         /\ ~Listed(Result.project_metrics[i].project)

\* j is the place of project p in the bottlenecks, before every bottleneck
\* with a smaller median duration
PlacedAt(p, j) ==
    /\ Result.bottlenecks[j].transition = p
    /\ \A k \in DOMAIN Result.bottlenecks :
         Result.bottlenecks[k].avg_wait_seconds < Result.bottlenecks[j].avg_wait_seconds
            => j < k

\* C8 as stated: every project whose median duration is more than twice the
\* overall median is among the bottlenecks, before every bottleneck with a
\* smaller median duration
C8_Original ==
    IsResult =>
        \A i \in Flagged :
            \E j \in DOMAIN Result.bottlenecks :
                PlacedAt(Result.project_metrics[i].project, j)

\* C8 amended: such a project is among the bottlenecks, before every
\* bottleneck with a smaller median duration, unless the list already holds
\* BottleneckCap projects whose median durations are at least as large
C8_SlowListedUpToCap ==
    IsResult =>
        \A i \in Flagged :
            \/ \E j \in DOMAIN Result.bottlenecks :
                 PlacedAt(Result.project_metrics[i].project, j)
            \/ /\ Len(Result.bottlenecks) = BottleneckCap
               /\ \A k \in DOMAIN Result.bottlenecks :
                    Result.bottlenecks[k].avg_wait_seconds
                        >= Result.project_metrics[i].median_duration_seconds

\* more slow projects than the list holds, of different durations
C8_Witness ==
    /\ IsResult
    /\ Cardinality(Flagged) > BottleneckCap
    /\ \E i \in Flagged : ~Listed(Result.project_metrics[i].project)
    /\ Result.bottlenecks[1].avg_wait_seconds
         > Result.bottlenecks[BottleneckCap].avg_wait_seconds

\* C9: the bottlenecks are at most 5, ordered by avg_wait_seconds
\* non-increasing; they are the flagged projects, or the 5 of them with the
\* largest median durations; an entry carries the project's median duration
\* and row count
C9_BottleneckList ==
    IsResult =>
        LET b == Result.bottlenecks
            pm == Result.project_metrics
        IN /\ Len(b) <= 5
           /\ Len(b) = IF Cardinality(Flagged) > 5 THEN 5 ELSE Cardinality(Flagged)
           /\ \A j, k \in DOMAIN b :
                j < k => /\ b[j].avg_wait_seconds >= b[k].avg_wait_seconds
                         /\ b[j].transition # b[k].transition
           /\ \A j \in DOMAIN b :
                \E i \in Flagged :
                    /\ pm[i].project = b[j].transition
                    /\ b[j].avg_wait_seconds = pm[i].median_duration_seconds
                    /\ b[j].frequency = Cardinality(RowsOf(pm[i].project))
           /\ \A i \in Flagged :
                ~Listed(pm[i].project) =>
                    \A j \in DOMAIN b :
                        b[j].avg_wait_seconds >= pm[i].median_duration_seconds

\* more than 5 flagged projects, the dropped one as slow as the last kept
C9_Witness ==
    /\ IsResult
    /\ Cardinality(Flagged) > 5
    /\ Len(Result.bottlenecks) = 5
    /\ \E i \in Flagged :
         /\ ~Listed(Result.project_metrics[i].project)
         /\ Result.project_metrics[i].median_duration_seconds
              = Result.bottlenecks[5].avg_wait_seconds

FailedOf(p) == {i \in RowsOf(p) : df.rows[i].status = "failed"}

\* C10: every entry of top_failing_projects is a project with at least 10
\* builds of which more than 30% failed
C10_TopFailingThresholds ==
    IsResult =>
        \A j \in DOMAIN Result.top_failing_projects :
            LET p == Result.top_failing_projects[j].project
            IN /\ Result.top_failing_projects[j].n_builds >= 10
               /\ Cardinality(RowsOf(p)) >= 10
               /\ RateGT(Result.top_failing_projects[j].failure_rate, 3, 10)
               /\ 10 * Cardinality(FailedOf(p)) > 3 * Cardinality(RowsOf(p))

\* a listed project next to one with exactly 30% failures and one with
\* fewer than 10 builds, all of them failed
C10_Witness ==
    /\ IsResult
    /\ Len(Result.top_failing_projects) > 0
    /\ \E p \in ProjectNames :
         /\ Cardinality(RowsOf(p)) >= 10
         /\ 10 * Cardinality(FailedOf(p)) = 3 * Cardinality(RowsOf(p))
    /\ \E p \in ProjectNames :
         /\ Cardinality(RowsOf(p)) < 10
         /\ FailedOf(p) = RowsOf(p)

\* the place of project p in project_metrics (group-by order)
MetricsIndex(p) ==
    CHOOSE i \in DOMAIN Result.project_metrics : Result.project_metrics[i].project = p

\* the first row of project p in the table
FirstRow(p) == CHOOSE i \in RowsOf(p) : \A k \in RowsOf(p) : i <= k

\* the projects with at least 10 builds of which more than 30% failed
Qualifying ==
    {p \in ProjectNames :
        /\ Cardinality(RowsOf(p)) >= 10
        /\ 10 * Cardinality(FailedOf(p)) > 3 * Cardinality(RowsOf(p))}

\* project p has a larger share of failed builds than project q
FailsMore(p, q) ==
    Cardinality(FailedOf(p)) * Cardinality(RowsOf(q))
        > Cardinality(FailedOf(q)) * Cardinality(RowsOf(p))

\* top_failing_projects holds entries of project_metrics for min(5, number
\* of qualifying projects) different qualifying projects, by failure rate
\* non-increasing, ties in the order Before; a qualifying project left out
\* comes after every entry in that order
TopFailingOrderedBy(Before(_, _)) ==
    LET top == Result.top_failing_projects
        After(p, q) == FailsMore(q, p) \/ (~FailsMore(p, q) /\ Before(q, p))
    IN /\ Len(top) = IF Cardinality(Qualifying) > 5 THEN 5 ELSE Cardinality(Qualifying)
       /\ \A j \in DOMAIN top :
            /\ top[j].project \in Qualifying
            /\ top[j] = Result.project_metrics[MetricsIndex(top[j].project)]
       /\ \A j, k \in DOMAIN top : j < k => After(top[k].project, top[j].project)
       /\ \A p \in Qualifying :
            (\A j \in DOMAIN top : top[j].project # p)
                => \A j \in DOMAIN top : After(p, top[j].project)

\* C11 as stated: top_failing_projects is the qualifying projects sorted by
\* failure rate descending and cut to the first 5, projects with equal
\* failure rates in the order of their first appearance in the table, which
\* also decides which of them survive the cut
C11_Original ==
    IsResult => TopFailingOrderedBy(LAMBDA p, q : FirstRow(p) < FirstRow(q))

\* C11 amended: the same, projects with equal failure rates in the order
\* they have in project_metrics (group-by order, ascending project name)
C11_TopFailingList ==
    IsResult => TopFailingOrderedBy(LAMBDA p, q : MetricsIndex(p) < MetricsIndex(q))

\* six qualifying projects, the table naming them in reverse name order,
\* the one left out tied with the last one kept
C11_Witness ==
    /\ IsResult
    /\ Cardinality(Qualifying) > 5
    /\ \A p, q \in ProjectNames : p < q => FirstRow(q) < FirstRow(p)
    /\ \E p \in Qualifying :
         /\ \A j \in DOMAIN Result.top_failing_projects :
              Result.top_failing_projects[j].project # p
         /\ ~FailsMore(Result.top_failing_projects[5].project, p)
    /\ FailsMore(Result.top_failing_projects[1].project,
                 Result.top_failing_projects[5].project)

ErroredOf(p) == {i \in RowsOf(p) : df.rows[i].status = "errored"}

\* C12: projects_at_risk holds exactly the names of the projects with at
\* least 10 builds of which more than 40% failed or errored, each once, in
\* the order the projects have in project_metrics, however many they are
C12_ProjectsAtRisk ==
    IsResult =>
        LET risk == Result.projects_at_risk
        IN /\ \A p \in ProjectNames :
                (\E j \in DOMAIN risk : risk[j] = p)
                    <=> /\ Cardinality(RowsOf(p)) >= 10
                        /\ 10 * (Cardinality(FailedOf(p)) + Cardinality(ErroredOf(p)))
                             > 4 * Cardinality(RowsOf(p))
           /\ \A j \in DOMAIN risk : risk[j] \in ProjectNames
           /\ \A j, k \in DOMAIN risk :
                j < k => MetricsIndex(risk[j]) < MetricsIndex(risk[k])

\* more projects at risk than top_failing_projects holds, the table naming
\* the projects in reverse name order
C12_Witness ==
    /\ IsResult
    /\ Len(Result.projects_at_risk) > TopFailingCap
    /\ Len(Result.top_failing_projects) = TopFailingCap
    /\ \A p, q \in ProjectNames : p < q => FirstRow(q) < FirstRow(p)

\* a project at risk through failures and errors together, neither above
\* 40% alone
C12_WitnessMixed ==
    /\ IsResult
    /\ Len(Result.projects_at_risk) = 1
    /\ \E p \in ProjectNames :
         /\ 10 * Cardinality(FailedOf(p)) < 4 * Cardinality(RowsOf(p))
         /\ 10 * Cardinality(ErroredOf(p)) < 4 * Cardinality(RowsOf(p))
         /\ ErroredOf(p) # {}

\* C13: for the table of ten builds of proj-a and proj-b, analyze() returns
\* 10 builds, 2 projects, overall rates 0.6 / 0.3 / 0.1, median duration
\* 240 and maximum 400, proj-a with rates 0.6 / 0.2 / 0.2 and proj-b with
\* rates 0.6 / 0.4 / 0.0
C13_SampleTable ==
    (IsResult /\ df = _preprocess(SampleTable)) =>
        /\ Result.n_builds = 10
        /\ Result.n_projects = 2
        /\ Result.overall_success_rate = <<3, 5>>
        /\ Result.overall_failure_rate = <<3, 10>>
        /\ Result.overall_error_rate = <<1, 10>>
        /\ Result.median_duration_seconds = 240 * Scale
        /\ Result.max_duration_seconds = 400 * Scale
        /\ Len(Result.project_metrics) = 2
        /\ Result.project_metrics[1].project = 1
        /\ Result.project_metrics[1].success_rate = <<3, 5>>
        /\ Result.project_metrics[1].failure_rate = <<1, 5>>
        /\ Result.project_metrics[1].error_rate = <<1, 5>>
        /\ Result.project_metrics[2].project = 2
        /\ Result.project_metrics[2].success_rate = <<3, 5>>
        /\ Result.project_metrics[2].failure_rate = <<2, 5>>
        /\ Result.project_metrics[2].error_rate = <<0, 1>>

C13_Witness ==
    /\ IsResult
    /\ df = _preprocess(SampleTable)
    /\ Result.n_builds = 10
    /\ Result.date_range_start = 1
    /\ Result.date_range_end = 10

\* every row of the table belongs to one and the same project
SingleProject ==
    /\ Cardinality(ProjectNames) = 1
    /\ \A i \in DOMAIN df.rows : df.rows[i].project # NULL

NoneWithStatus(s) == \A i \in DOMAIN df.rows : df.rows[i].status # s

\* C14 as stated: for a table of a single project without failed builds,
\* bottlenecks and projects_at_risk are empty
C14_Original ==
    (IsResult /\ SingleProject /\ NoneWithStatus("failed")) =>
        /\ Result.bottlenecks = <<>>
        /\ Result.projects_at_risk = <<>>

\* C14 amended: for a table of a single project bottlenecks is empty;
\* projects_at_risk is empty if no build failed or errored, and holds the
\* project if no build failed but more than 40% of at least 10 builds
\* errored
C14_SingleProject ==
    (IsResult /\ SingleProject) =>
        /\ Result.bottlenecks = <<>>
        /\ (NoneWithStatus("failed") /\ NoneWithStatus("errored"))
              => Result.projects_at_risk = <<>>
        /\ (/\ NoneWithStatus("failed")
            /\ Len(df.rows) >= 10
            /\ 10 * Cardinality({i \in DOMAIN df.rows : df.rows[i].status = "errored"})
                 > 4 * Len(df.rows))
              => Len(Result.projects_at_risk) = 1

\* one project of 100 builds, all passed
C14_Witness ==
    /\ IsResult
    /\ SingleProject
    /\ Len(df.rows) = 100
    /\ NoneWithStatus("failed")
    /\ Result.n_projects = 1
    /\ Result.bottlenecks = <<>>
    /\ Result.projects_at_risk = <<>>

CoercedColumns == {"started_at", "duration", "tests_run", "tests_failed"}

\* the rows among I whose cell in column c of the file holds a value
Good(I, c) == {i \in I : csv.rows[i][c] \notin {NULL, BAD}}

FileRowsOf(p) == {i \in DOMAIN csv.rows : csv.rows[i].project = p}

\* the sum of column c of the file over the rows lo..hi that are in I
RECURSIVE SumRows(_, _, _, _)
SumRows(I, c, lo, hi) ==
    IF lo > hi THEN 0
    ELSE IF lo = hi THEN (IF lo \in I THEN csv.rows[lo][c] ELSE 0)
    ELSE SumRows(I, c, lo, (lo + hi) \div 2) + SumRows(I, c, (lo + hi) \div 2 + 1, hi)

SumOver(I, c) == SumRows(I, c, 1, Len(csv.rows))

\* the mean of column c over the rows I of the file that hold a value
RefMean(I, c) ==
    LET G == Good(I, c)
    IN IF G = {} THEN <<NULL, 1>>
       ELSE LET g == Gcd(SumOver(G, c), Cardinality(G))
            IN <<SumOver(G, c) \div g, Cardinality(G) \div g>>

RefRate(I, s) ==
    Rate(Cardinality({i \in I : csv.rows[i].status = s}), Cardinality(I))

\* C15: load_data() raises for no reason but the path and analyze() does
\* not raise once a table is loaded; an unparseable timestamp, duration or
\* test-count cell is null in the loaded table, every other cell is as in
\* the file; the date range, the duration statistics and the test-count
\* means are those of the rows whose cell holds a value, the counts and
\* status rates those of all rows, and a project without a test count has
\* null averages
C15_MalformedCells ==
    /\ (ret.op = "load_data" /\ ret.kind = "raise")
          => ret.msg = "No data path provided" \/ ret.exc = "FileNotFoundError"
    /\ (ret.op = "analyze" /\ everLoaded) => ret.kind = "return"
    /\ df # None =>
          /\ Len(df.rows) = Len(csv.rows)
          /\ \A i \in DOMAIN df.rows :
               /\ \A c \in CoercedColumns :
                    df.rows[i][c] = IF csv.rows[i][c] = BAD THEN NULL ELSE csv.rows[i][c]
               /\ \A c \in {"project", "status", "language"} :
                    df.rows[i][c] = csv.rows[i][c]
    /\ IsResult =>
          LET All == DOMAIN csv.rows
              ts == {csv.rows[i].started_at : i \in Good(All, "started_at")}
          IN /\ Result.n_builds = Cardinality(All)
             /\ Result.overall_success_rate = RefRate(All, "passed")
             /\ Result.overall_failure_rate = RefRate(All, "failed")
             /\ Result.overall_error_rate = RefRate(All, "errored")
             /\ IF ts = {} THEN Result.date_range_start = NULL /\ Result.date_range_end = NULL
                ELSE /\ Result.date_range_start \in ts
                     /\ Result.date_range_end \in ts
                     /\ \A x \in ts : Result.date_range_start <= x /\ x <= Result.date_range_end
             /\ Result.median_duration_seconds = RefMedian(Good(All, "duration"))
             /\ Result.p90_duration_seconds = RefP90(Good(All, "duration"))
             /\ Result.max_duration_seconds = RefMax(Good(All, "duration"))
             /\ \A j \in DOMAIN Result.project_metrics :
                  LET m == Result.project_metrics[j]
                      I == FileRowsOf(m.project)
                  IN /\ m.n_builds = Cardinality(I)
                     /\ m.success_rate = RefRate(I, "passed")
                     /\ m.failure_rate = RefRate(I, "failed")
                     /\ m.error_rate = RefRate(I, "errored")
                     /\ m.median_duration_seconds = RefMedian(Good(I, "duration"))
                     /\ m.p90_duration_seconds = RefP90(Good(I, "duration"))
                     /\ m.avg_tests_run = RefMean(I, "tests_run")
                     /\ m.avg_tests_failed = RefMean(I, "tests_failed")

\* two builds, one with an unparseable duration and timestamp, the other
\* with an unparseable test count
C15_Witness ==
    /\ IsResult
    /\ \E i \in DOMAIN csv.rows :
         csv.rows[i].duration = BAD /\ csv.rows[i].started_at = BAD
    /\ \E i \in DOMAIN csv.rows : csv.rows[i].tests_run = BAD
    /\ Result.n_builds = 2
    /\ Result.median_duration_seconds = 3 * Scale
    /\ Result.date_range_start = 1
    /\ Result.project_metrics[1].avg_tests_run = <<4, 1>>
    /\ Result.overall_success_rate = <<1, 1>>

\* a project whose only test-count cells are unparseable or empty
C15_WitnessNullAverage ==
    /\ IsResult
    /\ \E i \in DOMAIN csv.rows : csv.rows[i].tests_run = BAD
    /\ Result.project_metrics[1].avg_tests_run = <<NULL, 1>>

\* datetime.fromisoformat: the instant an ISO-8601 string denotes
fromisoformat(iso) ==
    (((iso[1] * 24 + iso[2]) * 60 + iso[3]) * 60 + iso[4]) * TicksPerSecond
        + IF Len(iso) > 4 THEN iso[5] \div MicrosPerTick ELSE 0

SameDate(iso, date) ==
    IF date = NULL THEN iso = NoDate
    ELSE iso # NoDate /\ fromisoformat(iso) = date

\* the dict d holds the fields of the result r
Lossless(d, r) ==
    /\ d.n_builds = r.n_builds
    /\ d.n_projects = r.n_projects
    /\ SameDate(d.date_range_start, r.date_range_start)
    /\ SameDate(d.date_range_end, r.date_range_end)
    /\ d.overall_success_rate = r.overall_success_rate
    /\ d.overall_failure_rate = r.overall_failure_rate
    /\ d.overall_error_rate = r.overall_error_rate
    /\ d.median_duration_seconds = r.median_duration_seconds
    /\ d.p90_duration_seconds = r.p90_duration_seconds
    /\ d.max_duration_seconds = r.max_duration_seconds
    /\ d.status_counts = r.status_counts
    /\ d.language_counts = r.language_counts
    /\ d.projects_at_risk = r.projects_at_risk
    /\ Len(d.bottlenecks) = Len(r.bottlenecks)
    /\ \A i \in DOMAIN r.bottlenecks :
         /\ d.bottlenecks[i].transition = r.bottlenecks[i].transition
         /\ d.bottlenecks[i].avg_wait_seconds = r.bottlenecks[i].avg_wait_seconds
         /\ d.bottlenecks[i].frequency = r.bottlenecks[i].frequency
    /\ Len(d.top_failing_projects) = Len(r.top_failing_projects)
    /\ \A i \in DOMAIN r.top_failing_projects :
         \A k \in DOMAIN r.top_failing_projects[i] :
            d.top_failing_projects[i][k] = r.top_failing_projects[i][k]
    /\ Len(d.project_metrics) = Len(r.project_metrics)
    /\ \A i \in DOMAIN r.project_metrics :
         \A k \in DOMAIN r.project_metrics[i] :
            d.project_metrics[i][k] = r.project_metrics[i][k]

\* C16: to_dict() of a result holds every scalar field unchanged, each date
\* as the ISO-8601 string that parses back to the same instant, or null
\* for no date, and the bottlenecks, top failing projects and project
\* metrics as lists of the same length, order and field values
C16_ToDictLossless == [][ToDict => Lossless(out'.value, ret.value)]_vars

\* a result with a date that has a fraction of a second, two bottlenecks
\* and a top failing project
C16_Witness ==
    /\ out.op = "to_dict"
    /\ Len(out.value.date_range_start) = 5
    /\ Len(out.value.bottlenecks) = 2
    /\ Len(out.value.top_failing_projects) = 1
    /\ Len(out.value.project_metrics) = 3

\* a result without a date range
C16_WitnessNoDate ==
    /\ out.op = "to_dict"
    /\ out.value.date_range_start = NoDate
    /\ out.value.n_builds > 0

SectionTitles ==
    <<"## Summary", "## Build Status", "## Duration", "## Bottlenecks",
      "## Projects at Risk", "## Top Failing Projects">>

\* the list a section renders, as the names its lines start with
SectionNames(r, title) ==
    IF title = "## Bottlenecks"
    THEN [i \in DOMAIN r.bottlenecks |-> r.bottlenecks[i].transition]
    ELSE IF title = "## Projects at Risk" THEN r.projects_at_risk
    ELSE IF title = "## Top Failing Projects"
    THEN [i \in DOMAIN r.top_failing_projects |-> r.top_failing_projects[i].project]
    ELSE <<>>

IsTitle(line) == \E i \in DOMAIN SectionTitles : SectionTitles[i] = line.text

\* the lines of the text from line k + 1 up to the next empty line
BodyLength(text, k) ==
    CHOOSE n \in 0..Len(text) :
        /\ k + n + 1 <= Len(text)
        /\ text[k + n + 1] = EmptyLine
        /\ \A j \in 1..n : text[k + j] # EmptyLine

\* the text has the sections in the fixed order, the first three always and
\* each of the last three exactly if its list is not empty, with one line
\* per element of the list, in list order
SectionsInOrder(text, r) ==
    LET titles == SelectSeq(text, IsTitle)
        expected == SelectSeq(SectionTitles,
                        LAMBDA t : \/ t \in {"## Summary", "## Build Status", "## Duration"}
                                   \/ Len(SectionNames(r, t)) > 0)
    IN /\ Len(titles) = Len(expected)
       /\ \A i \in DOMAIN titles : titles[i].text = expected[i]
       /\ \A k \in DOMAIN text :
            text[k].text \in {"## Bottlenecks", "## Projects at Risk",
                              "## Top Failing Projects"}
              => LET names == SectionNames(r, text[k].text)
                 IN /\ BodyLength(text, k) = Len(names)
                    /\ \A j \in DOMAIN names :
                         text[k + j].fields[1].value = names[j]

\* C17: to_llm_context() renders summary, build status, duration,
\* bottlenecks, projects at risk, top failing projects in this order, the
\* first three always, each of the last three exactly if its list is not
\* empty and then with one line per element in list order
C17_SectionsInOrder == [][ToLlmContext => SectionsInOrder(out'.value, ret.value)]_vars

\* all six sections, the bottleneck section with two lines
C17_Witness ==
    /\ out.op = "to_llm_context"
    /\ IsResult
    /\ Len(Result.bottlenecks) = 2
    /\ Len(Result.projects_at_risk) = 1
    /\ Len(Result.top_failing_projects) = 1
    /\ Len(out.value) = 27

\* the three fixed sections alone
C17_WitnessNoLists ==
    /\ out.op = "to_llm_context"
    /\ IsResult
    /\ Len(Result.project_metrics) = 2
    /\ Len(out.value) = 17

Bound == _current_analysis # None

\* C18: with no result bound each of the four tools returns the text
\* "Error: No analysis data available." and does not raise;
\* set_analysis_context binds the result it is given, and with a result
\* bound the tools report on it, get_summary_stats returning exactly its
\* to_llm_context()
C18_ToolsNeedAnalysis ==
    [][/\ (analyze_bottlenecks \/ analyze_failures \/ compare_projects \/ get_summary_stats)
            => /\ out'.kind = "return"
               /\ (out'.value = NoAnalysisText) <=> ~Bound
       /\ set_analysis_context => (IsResult /\ _current_analysis' = Result)
       /\ (get_summary_stats /\ Bound)
            => out'.value = to_llm_context(_current_analysis)
       /\ (analyze_bottlenecks /\ Bound)
            => /\ out'.value[1].text = "## Bottleneck Analysis\n"
               /\ Len(out'.value) = 4 + Len(_current_analysis.bottlenecks)
       /\ (analyze_failures /\ Bound)
            => /\ out'.value[1].text = "## Failure Pattern Analysis\n"
               /\ out'.value[2].fields[1].value = _current_analysis.overall_success_rate
       /\ (compare_projects /\ Bound)
            => /\ out'.value[1].text = "## Project Comparison\n"
               /\ Len(_current_analysis.project_metrics) > 0
                    => out'.value[2].fields[1].value = _current_analysis.n_projects
      ]_vars

\* get_summary_stats on a bound result with all six sections
C18_Witness ==
    /\ out.op = "get_summary_stats"
    /\ Bound
    /\ out.value = to_llm_context(_current_analysis)
    /\ Len(out.value) > 17

\* a tool called before any result is bound
C18_WitnessUnbound ==
    /\ out.op = "compare_projects"
    /\ ~Bound
    /\ out.value = NoAnalysisText
    /\ IsResult

\* the report has no bottleneck lines and says so
NoBottlenecksReported(text) ==
    /\ \E k \in DOMAIN text : text[k].text = "No significant bottlenecks detected."
    /\ \A k \in DOMAIN text : text[k].text # "- **{}**: {}s avg ({}x baseline), {} builds"

\* the report has one line per bottleneck, in list order, with the ratio of
\* its avg_wait_seconds to the median duration, 0 for a zero median
RatiosReported(text, r) ==
    /\ \A k \in DOMAIN text : text[k].text # "No significant bottlenecks detected."
    /\ Cardinality({k \in DOMAIN text :
                        text[k].text = "- **{}**: {}s avg ({}x baseline), {} builds"})
         = Len(r.bottlenecks)
    /\ \A j \in DOMAIN r.bottlenecks :
         LET line == text[4 + j]
             ratio == line.fields[3].value
         IN /\ line.text = "- **{}**: {}s avg ({}x baseline), {} builds"
            /\ line.fields[1].value = r.bottlenecks[j].transition
            /\ ratio[2] > 0
            /\ IF r.median_duration_seconds = 0 THEN ratio[1] = 0
               ELSE ratio[1] * r.median_duration_seconds
                        = r.bottlenecks[j].avg_wait_seconds * ratio[2]

\* C19: for a bound result with bottlenecks analyze_bottlenecks reports for
\* each of them avg_wait_seconds / median_duration_seconds, and 0 when the
\* median duration is 0; without bottlenecks it reports that none was
\* detected
C19_BottleneckRatios ==
    [][(analyze_bottlenecks /\ Bound) =>
          /\ out'.kind = "return"
          /\ IF Len(_current_analysis.bottlenecks) = 0
             THEN NoBottlenecksReported(out'.value)
             ELSE RatiosReported(out'.value, _current_analysis)]_vars

\* two bottlenecks reported against a zero median
C19_Witness ==
    /\ out.op = "analyze_bottlenecks"
    /\ Bound
    /\ _current_analysis.median_duration_seconds = 0
    /\ Len(_current_analysis.bottlenecks) = 2
    /\ Len(out.value) = 6
    /\ out.value[5].fields[3].value = <<0, 1>>

\* a bottleneck reported against a median above zero
C19_WitnessRatio ==
    /\ out.op = "analyze_bottlenecks"
    /\ Bound
    /\ _current_analysis.median_duration_seconds > 0
    /\ Len(out.value) = 5
    /\ out.value[5].fields[3].value = <<5, 1>>

TableRow == "| {} | {} | {} | {} | {}s |"
TrailerRow == "| ... and {} more projects | | | | |"

\* the table rows are min(15, n) of the n projects, by failure rate
\* non-increasing, no project left out failing more than one shown; one
\* trailer row with n - 15 if n > 15, none otherwise
ComparisonShown(text, r) ==
    LET n == Len(r.project_metrics)
        rows == SelectSeq(text, LAMBDA line : line.text = TableRow)
        trailers == SelectSeq(text, LAMBDA line : line.text = TrailerRow)
        shown == {rows[i].fields[1].value : i \in DOMAIN rows}
    IN /\ Len(rows) = IF n > 15 THEN 15 ELSE n
       /\ Cardinality(shown) = Len(rows)
       /\ \A i \in DOMAIN rows :
            \E k \in DOMAIN r.project_metrics :
                /\ r.project_metrics[k].project = rows[i].fields[1].value
                /\ r.project_metrics[k].failure_rate = rows[i].fields[4].value
                /\ r.project_metrics[k].n_builds = rows[i].fields[2].value
       /\ \A i, j \in DOMAIN rows :
            i < j => ~RateLT(rows[i].fields[4].value, rows[j].fields[4].value)
       /\ \A k \in DOMAIN r.project_metrics :
            r.project_metrics[k].project \notin shown
              => \A i \in DOMAIN rows :
                    ~RateLT(rows[i].fields[4].value, r.project_metrics[k].failure_rate)
       /\ Len(trailers) = IF n > 15 THEN 1 ELSE 0
       /\ \A i \in DOMAIN trailers :
            /\ trailers[i].fields[1].value = n - 15
            /\ text[Len(text)] = trailers[i]

\* C20: compare_projects lists the projects of the bound result by failure
\* rate descending in min(15, number of projects) table rows, followed by
\* one trailer row with the number of projects beyond 15 exactly if there
\* are more than 15
C20_ComparisonRows ==
    [][(compare_projects /\ Bound) => ComparisonShown(out'.value, _current_analysis)]_vars

\* 17 projects: 15 rows and the trailer for 2 more
C20_Witness ==
    /\ out.op = "compare_projects"
    /\ Bound
    /\ Len(_current_analysis.project_metrics) = 17
    /\ out.value[Len(out.value)].text = TrailerRow
    /\ out.value[Len(out.value)].fields[1].value = 2
    /\ Len(out.value) = 22

\* exactly 15 projects: 15 rows and no trailer
C20_WitnessFifteen ==
    /\ out.op = "compare_projects"
    /\ Bound
    /\ Len(_current_analysis.project_metrics) = 15
    /\ Len(out.value) = 21


(***************************************************************************)
(* The analyzer used again                                                 *)
(***************************************************************************)

\* the projects of the rows of a table / of the metrics of a result
ProjectsOfRows(tab) == {tab.rows[i].project : i \in DOMAIN tab.rows}
ProjectsOfResult(r) == {r.project_metrics[i].project : i \in DOMAIN r.project_metrics}

\* C26: analyze() leaves the analyzer as it is: the stored table and the
\* path stay, an analyze() right after an analyze() returns an equal
\* result, and once load_data() succeeds the stored table has the rows of
\* the file just read and nothing else, so that the next result counts
\* the builds and the projects of that table only
C26_AnalyzeReadsOnly ==
    [][/\ analyze => df' = df /\ data_path' = data_path
       /\ analyze /\ ret.op = "analyze" => ret' = ret
       /\ (\E path \in Paths \cup {NoPath} : LoadDataOk(path)) =>
              /\ Len(df'.rows) = Len(csv.rows)
              /\ \A i \in DOMAIN csv.rows :
                    /\ df'.rows[i].project = csv.rows[i].project
                    /\ df'.rows[i].status = csv.rows[i].status
       /\ analyze /\ df # None =>
              /\ ret'.kind = "return"
              /\ ret'.value.n_builds = Len(df.rows)
              /\ ProjectsOfResult(ret'.value) = ProjectsOfRows(df) \ {NULL}]_vars

\* the file was rewritten after the load, with other projects: the result
\* analyze() returned is the one of the stored table
C26_Witness ==
    /\ ret.op = "analyze" /\ ret.kind = "return"
    /\ df # None
    /\ Len(df.rows) # Len(csv.rows)
    /\ ProjectsOfRows(df) \cap ProjectsOfRows(csv) = {}
    /\ ret.value.n_builds = Len(df.rows)
    /\ ret.value.n_builds > 0
    /\ ProjectsOfResult(ret.value) = ProjectsOfRows(df)

\* C30: in every result of analyze() the median is at most the p90, which
\* is at most the maximum, the p90 being the linear interpolation at
\* position 0.9 (k - 1) of the k durations that are not missing; and the
\* median of every project is at most its p90, which is at most the
\* overall maximum
C30_DurationOrder ==
    IsResult =>
        /\ Result.median_duration_seconds <= Result.p90_duration_seconds
        /\ Result.p90_duration_seconds <= Result.max_duration_seconds
        /\ Result.p90_duration_seconds = RefP90(WithDuration(DOMAIN df.rows))
        /\ \A i \in DOMAIN Result.project_metrics :
             /\ Result.project_metrics[i].median_duration_seconds
                    <= Result.project_metrics[i].p90_duration_seconds
             /\ Result.project_metrics[i].p90_duration_seconds
                    <= Result.max_duration_seconds

\* three durations: the p90 lies strictly between median and maximum, and
\* one project stays below the overall maximum
C30_Witness ==
    /\ IsResult
    /\ Cardinality(WithDuration(DOMAIN df.rows)) = 3
    /\ Result.median_duration_seconds < Result.p90_duration_seconds
    /\ Result.p90_duration_seconds < Result.max_duration_seconds
    /\ \E i \in DOMAIN Result.project_metrics :
         /\ Result.project_metrics[i].median_duration_seconds
                < Result.project_metrics[i].p90_duration_seconds
         /\ Result.project_metrics[i].p90_duration_seconds < Result.max_duration_seconds

(***************************************************************************)
(* Sessions of several agents in one process                               *)
(***************************************************************************)

\* C21: the bound result is one slot for the whole process: a reporting
\* tool called while graphs run reports on the result of the most recent
\* bind in the process, whichever session's graph calls it
C21_ToolsReadLastBound ==
    [][ToolCall =>
        /\ latest # Nobody
        /\ out'.op = "get_summary_stats" => out'.value = to_llm_context(given[latest])
        /\ out'.op = "analyze_bottlenecks" => out'.value = BottleneckReport(given[latest])
        /\ out'.op = "analyze_failures" => out'.value = FailureReport(given[latest])
        /\ out'.op = "compare_projects" => out'.value = ComparisonReport(given[latest])]_vars

\* A bound one result, B bound another and its call is over, and the tool
\* A's graph then called reported on B's result
C21_Witness ==
    /\ Invoking("A")
    /\ pc["B"] = Idle
    /\ latest = "B"
    /\ given["B"] # None
    /\ given["A"] # given["B"]
    /\ out.op = "get_summary_stats"
    /\ out.value = to_llm_context(given["B"])
    /\ out.value # to_llm_context(given["A"])


\* the analyze() call of a that returns in this step, on an agent with a store
AnalyzeReturns(a) ==
    /\ InvokeReturns(a)
    /\ pc[a].op = "analyze"
    /\ agents[a].vector_store # NoStore

\* C22 as claimed: every analyze() call that returns on an agent with a
\* vector store makes the count of that store grow by 1
C22_Original ==
    [][\A a \in Agents : AnalyzeReturns(a) =>
            collection_count(stores'[agents[a].vector_store])
                = collection_count(stores[agents[a].vector_store]) + 1]_vars

\* C22: an analyze() call that returns on an agent with a vector store
\* writes one document under the id of the second it is written in, the
\* text being the result the call was given: the count grows by 1 unless
\* the store holds a document of that id, which is then replaced, and the
\* other documents stay; every other step, the return of investigate(), of
\* analyze() on an agent without a store and a raising invocation included,
\* leaves every store as it is
C22_StoredPerSecond ==
    [][/\ \A a \in Agents : AnalyzeReturns(a) =>
            LET s == agents[a].vector_store
                id == <<"analysis", "multi-project", now \div TicksPerSecond>>
                held == {d \in stores[s] : d.id = id}
            IN  /\ \E d \in stores'[s] : d.id = id /\ d.text = to_llm_context(given[a])
                /\ {d \in stores'[s] : d.id # id} = stores[s] \ held
                /\ collection_count(stores'[s])
                       = collection_count(stores[s]) + (IF held = {} THEN 1 ELSE 0)
                /\ \A t \in Stores \ {s} : stores'[t] = stores[t]
       /\ (\A a \in Agents : ~AnalyzeReturns(a)) => stores' = stores]_vars

\* two analyses stored in different seconds are both in the store
C22_Witness ==
    /\ out.op = "analyze" /\ out.kind = "return"
    /\ collection_count(stores["S"]) = 2
    /\ \E d \in stores["S"] : d.id = <<"analysis", "multi-project", 0>>
    /\ \E d \in stores["S"] : d.id = <<"analysis", "multi-project", 1>>


\* the lines of a history answer that open an excerpt / separate two
HeaderLines(text) == {j \in DOMAIN text : text[j].text = "### Historical Analysis {}"}
SeparatorLines(text) == {j \in DOMAIN text : text[j].text = "---"}
AnalysesIn(docs) == {d \in docs : d.metadata.doc_type = "analysis"}

\* C25: search_historical_analyses returns, never raises, and answers by
\* precedence: the no-store text when no store is set, else the empty-store
\* text when the store holds no document, else the no-results text when
\* the search finds nothing, else the excerpts: as many as there are
\* analyses but at most 3, numbered from 1 in order, each an analysis of
\* the store with its project, date and success rate, and one '---' line
\* before every excerpt but the first
C25_HistoryAnswer ==
    [][search_historical_analyses =>
        LET answer == out'.value
            found == AnalysesIn(ToolDocs)
            heads == HeaderLines(answer)
        IN  /\ out'.kind = "return"
            /\ IF _vector_store = NoStore
               THEN answer = <<Line("No historical data available. This is the first analysis.", <<>>)>>
               ELSE IF stores[_vector_store] = {}
               THEN answer = <<Line("No historical analyses stored yet.", <<>>)>>
               ELSE IF found = {}
               THEN answer = <<Line("No relevant historical analyses found.", <<>>)>>
               ELSE /\ Cardinality(heads) = IF Cardinality(found) < 3 THEN Cardinality(found) ELSE 3
                    /\ 1 \in heads
                    /\ \A j \in heads :
                          /\ answer[j].fields[1].value = Cardinality({h \in heads : h <= j})
                          /\ j > 1 => j - 1 \in SeparatorLines(answer)
                          /\ \E d \in found :
                                /\ answer[j + 1].fields =
                                       <<Fmt("", d.metadata.project),
                                         Fmt("", d.metadata.analysis_date),
                                         Fmt("", d.metadata.success_rate)>>
                                /\ SubSeq(answer, j + 3, j + 2 + Len(d.text)) = d.text
                    /\ \A j \in SeparatorLines(answer) : j + 1 \in heads
                    /\ Cardinality(SeparatorLines(answer)) = Cardinality(heads) - 1]_vars

\* four analyses are stored and the answer has three excerpts
C25_Witness ==
    /\ out.op = "search_historical_analyses"
    /\ _vector_store = "S"
    /\ Cardinality(AnalysesIn(stores["S"])) = 4
    /\ Cardinality(HeaderLines(out.value)) = 3
    /\ Cardinality(SeparatorLines(out.value)) = 2

\* C27: the history tool reads the one store slot of the process, which
\* every DevFlowAgent construction overwrites with the store it is given,
\* none included, and nothing else changes: the tool answers from the
\* store of the agent constructed last, not from the store of the agent
\* whose call is running, while analyze() writes to the store of its own
\* agent
C27_ToolUsesLastStore ==
    [][/\ \A a \in Agents :
            /\ agents[a] = None /\ agents'[a] # None =>
                    _vector_store' = agents'[a].vector_store
            /\ AnalyzeReturns(a) =>
                    \E d \in stores'[agents[a].vector_store] :
                        d.text = to_llm_context(given[a])
       /\ (\A a \in Agents : agents[a] = None <=> agents'[a] = None) =>
                    _vector_store' = _vector_store
       /\ HistoryCall =>
            IF _vector_store = NoStore
            THEN out'.value = NoStoreText
            ELSE IF stores[_vector_store] = {}
            THEN out'.value = EmptyStoreText
            ELSE /\ HeaderLines(out'.value) # {}
                 /\ \A j \in HeaderLines(out'.value) :
                        \E d \in stores[_vector_store] :
                            SubSeq(out'.value, j + 3, j + 2 + Len(d.text)) = d.text]_vars

\* A was made with store S and B without one; S holds what A's analyze()
\* wrote, and the search made while A runs again answers that there is no
\* historical data
C27_Witness ==
    /\ agents["A"] # None /\ agents["A"].vector_store = "S"
    /\ agents["B"] # None /\ agents["B"].vector_store = NoStore
    /\ given["B"] = None
    /\ _vector_store = NoStore
    /\ stores["S"] # {}
    /\ Invoking("A") /\ pc["A"].op = "analyze"
    /\ out.op = "search_historical_analyses"
    /\ out.value = NoStoreText

\* the call of a gets to the invocation / comes back from it
CallStarted(a) == pc[a] = Idle /\ pc'[a].at = "invoke"
CallReturned(a) == Invoking(a) /\ pc'[a] = Idle /\ out'.kind = "return"
CallRaised(a) == Invoking(a) /\ pc'[a] = Idle /\ out'.kind = "raise"

\* C28: the steps of analyze() in order: the result is bound and nothing
\* is stored when the invocation starts; a history search during the
\* invocation reads the store as it still is and leaves it so; the store
\* is written only when an invocation of analyze() returns, with the
\* result of that call, and the call then returns the final message; a
\* raising invocation stores nothing and leaves the result bound
C28_AnalyzeOrder ==
    [][/\ \A a \in Agents :
            /\ CallStarted(a) =>
                    /\ given'[a] # None
                    /\ _current_analysis' = given'[a]
                    /\ stores' = stores
            /\ CallReturned(a) =>
                    /\ out'.op = pc[a].op
                    /\ out'.value \in {FinalMessage, NoOutputText}
            /\ CallRaised(a) =>
                    /\ out'.op = pc[a].op
                    /\ stores' = stores
                    /\ _current_analysis' = _current_analysis
                    /\ _current_analysis # None
       /\ stores' # stores =>
            \E a \in Agents :
                /\ CallReturned(a)
                /\ pc[a].op = "analyze"
                /\ agents[a].vector_store # NoStore
                /\ \E d \in stores'[agents[a].vector_store] :
                        d.text = to_llm_context(given[a])
       /\ HistoryCall =>
                /\ stores' = stores
                /\ _vector_store # NoStore /\ stores[_vector_store] = {} =>
                        out'.value = EmptyStoreText
                /\ \A j \in HeaderLines(out'.value) :
                        \E d \in stores[_vector_store] :
                            SubSeq(out'.value, j + 3, j + 2 + Len(d.text)) = d.text]_vars

\* the only agent there is has a store, its analyze() raised in the
\* invocation: the store is empty and the result is bound
C28_Witness ==
    /\ agents["A"] # None /\ agents["A"].vector_store = "S"
    /\ agents["B"] = None
    /\ pc["A"] = Idle
    /\ out.op = "analyze" /\ out.kind = "raise"
    /\ stores["S"] = {}
    /\ given["A"] # None
    /\ _current_analysis = given["A"]

\* the instances create_llm made for owner
MadeFor(made, owner) == {i \in DOMAIN made : made[i].by = owner}

\* C24: LLMReporter.llm and DevFlowAgent.agent are made lazily and at most
\* once per object: construction makes nothing, the first access that
\* succeeds makes one instance from the object's model key and
\* temperature, and from then on the cached instance stays and create_llm
\* is not called again, however many calls follow
C24_LazyOnce ==
    [][/\ \A a \in Agents :
            /\ agents[a] = None /\ agents'[a] # None =>
                    agents'[a]._agent = NULL /\ created' = created
            /\ agents[a] # None /\ agents[a]._agent = NULL /\ agents'[a]._agent # NULL =>
                    /\ created' = Append(created, [by |-> a,
                                                   model_key |-> agents[a].model_key,
                                                   temperature |-> agents[a].temperature])
                    /\ agents'[a]._agent = Len(created')
            /\ agents[a] # None /\ agents[a]._agent # NULL =>
                    /\ agents'[a]._agent = agents[a]._agent
                    /\ MadeFor(created', a) = MadeFor(created, a)
            /\ Cardinality(MadeFor(created', a)) <= 1
       /\ reporter = None /\ reporter' # None =>
                    reporter'._llm = NULL /\ created' = created
       /\ reporter # None /\ reporter._llm = NULL /\ reporter'._llm # NULL =>
                    /\ created' = Append(created, [by |-> "reporter",
                                                   model_key |-> reporter.model_key,
                                                   temperature |-> reporter.temperature])
                    /\ reporter'._llm = Len(created')
       /\ reporter # None /\ reporter._llm # NULL =>
                    /\ reporter'._llm = reporter._llm
                    /\ MadeFor(created', "reporter") = MadeFor(created, "reporter")
       /\ Cardinality(MadeFor(created', "reporter")) <= 1
       /\ Len(created') >= Len(created)
       /\ SubSeq(created', 1, Len(created)) = created]_vars

\* the agent runs its graph and the reporter has generated a whole report,
\* four reads of llm, and each has the one instance made for it
C24_Witness ==
    /\ Invoking("A")
    /\ out.op = "generate_report" /\ out.kind = "return"
    /\ agents["A"]._agent = 1
    /\ reporter # None /\ reporter._llm = 2
    /\ Len(created) = 2
    /\ created[1].temperature # created[2].temperature

(***************************************************************************)
(* ExperimentTracker and Timer                                             *)
(***************************************************************************)

\* a step of one of the three log methods
LogCall == log_params \/ log_metrics \/ log_artifact

\* C23: log_params, log_metrics and log_artifact raise RuntimeError "No
\* active run" whenever they are called outside a start_run() block,
\* before any run and after a block was left, by its end or by an
\* exception of its body, and inside a block they log to its run
C23_LogNeedsActiveRun ==
    [][LogCall =>
        IF scope.run = "outside"
        THEN /\ out'.kind = "raise"
             /\ out'.exc = "RuntimeError"
             /\ out'.msg = NoActiveRun
             /\ mlflow' = mlflow
        ELSE /\ out'.kind = "return"
             /\ mlflow'.logged \ mlflow.logged \subseteq {mlflow.active} \X {"params", "metrics", "artifact"}
             /\ mlflow'.logged # {}]_vars


\* C29: elapsed_ms reads 0 until the timer has entered and left a
\* with-block, and no reading is ever negative, whatever the order of
\* blocks and readings, a reading inside a second block of the same timer
\* included
C29_ElapsedNeverNegative ==
    [][ReadElapsed =>
        /\ out'.value >= 0
        /\ timer._start = NULL \/ timer._end = NULL => out'.value = 0]_vars

====
